---- MODULE Spec2Model ----
\* Verification model of teobot's Mastodon frontend (Go, pgx/PostgreSQL):
\* the thread resolver, the thread index and the reply pipeline of
\* src/go/internal/service/teobot/mastodon.go, over the tables of
\* src/db/migrations/0001_init.up.sql and the queries of src/go/query.sql.
EXTENDS Integers, Sequences, FiniteSets, TLC

\* ---------------------------------------------------------------- bounds
MaxPosts == 4        \* statuses on the network (users' and the bot's)
MaxFaults == 1       \* failing store / network / LLM calls in one run
MaxChunks == 2       \* parts a reply is split into

\* ------------------------------------------------------------- constants
Nil == 0                      \* uuid.Nil, "" and SQL NULL
MyAccountID == "teobot"
Users == {"alice"}
\* The id the server gives the first mention; later ones count up from it.
NotificationIdStarts == {1, 9}

VARIABLES
    statuses,            \* network: status id -> [in_reply_to_id, account, visibility]
    notifications,       \* network: the mentions, oldest first, [id, status]
    chatgpt_messages,    \* table: message id -> row
    chatgpt_threads,     \* table: set of thread ids
    chatgpt_threads_rel, \* table: set of [thread_id, chatgpt_message_id, sequence_num]
    LastNotificationID,  \* MastodonTeobotFrontend.LastNotificationID
    stateFile,           \* state.json: the persisted lastNotificationId
    pc,                  \* position of the single worker
    replies,             \* Run: notifications of the batch not yet started (positions)
    reply,               \* Run: notification being handled (position; Nil: none)
    mes,                 \* GetOrCreateCurrentThreadId: id of the row found for the parent
    threadId,            \* ReplyToResult.ThreadId
    texts,               \* ReplyAndPost: number of chunks of the reply
    i,                   \* ReplyAndPost: index of the chunk being posted
    inReplyToId,         \* ReplyAndPost: status the next chunk replies to
    err,                 \* error returned by the last call
    last,                \* the last call made by the worker
    how,                 \* branch GetOrCreateCurrentThreadId returned from
    faults,              \* failing calls and crashes injected so far
    ctxDone,             \* the context RunServer was given is cancelled
    chat,                \* TeobotService.Chat / chat: one call and its tool loop
    appenders,           \* concurrent SaveMessageInThread calls: their transactions
    split,               \* textsplit.SplitText: one call, its input and result
    metrics,             \* package metrics: providers, contexts and what they saw
    server,              \* RunServer: whether it has returned, and what
    tools,               \* Chat / chat: the tool calls of the model's turns
    failed,              \* the resolver's log: the call that failed in its last run
    hist,                \* BuildThreadHistory: a store, one call and its result
    retry                \* WithRetry / withRetry: one call, its attempts and waits

frontend == <<statuses, notifications, chatgpt_messages, chatgpt_threads,
              chatgpt_threads_rel, LastNotificationID, stateFile, pc, replies,
              reply, mes, threadId, texts, i, inReplyToId, err, last, how, faults>>

\* The state of the components a step of the frontend's worker leaves alone.
more == <<server, tools, failed, hist, retry>>

components == <<ctxDone, chat, appenders, split, metrics, more>>

vars == <<frontend, components>>

network == <<statuses, notifications>>
store == <<chatgpt_messages, chatgpt_threads, chatgpt_threads_rel>>
cursor == <<LastNotificationID, stateFile>>

\* ------------------------------------------------------------- helpers
Max(S) == CHOOSE x \in S : \A y \in S : y <= x

MessageIds == 1..Len(chatgpt_messages)

\* uuid.NewV7(): an id no row of the table has.
NewThreadId == Cardinality(chatgpt_threads) + 1

\* Decimal digits of an id; the empty string for Nil.
RECURSIVE Digits(_)
Digits(n) == IF n = 0 THEN <<>> ELSE Append(Digits(n \div 10), n % 10)

\* Go's < on strings: byte-wise lexicographic order.
RECURSIVE StrLess(_, _)
StrLess(a, b) ==
    IF b = <<>> THEN FALSE
    ELSE IF a = <<>> THEN TRUE
    ELSE IF Head(a) # Head(b) THEN Head(a) < Head(b)
    ELSE StrLess(Tail(a), Tail(b))

\* Mutant: the reply chain above id, nearest ancestor first.
RECURSIVE Ancestors_LeafFirst(_)
Ancestors_LeafFirst(id) ==
    LET p == statuses[id].in_reply_to_id
    IN IF p = Nil THEN <<>> ELSE <<p>> \o Ancestors_LeafFirst(p)

\* GetReplyTree(id).Ancestors: the reply chain above id, root first.
RECURSIVE Ancestors(_)
Ancestors(id) ==
    LET p == statuses[id].in_reply_to_id
    IN IF p = Nil THEN <<>> ELSE Append(Ancestors(p), p)

\* getPrivacyLevel: direct and followers-only statuses are private.
getPrivacyLevel(id) ==
    IF statuses[id].visibility \in {"direct", "private"} THEN "private" ELSE "public"

\* convertToMessage: the role of a status' author.
convertToMessage(id) ==
    IF statuses[id].account = MyAccountID THEN "assistant" ELSE "user"

\* Mutant: ORDER BY sequence_num DESC.
RECURSIVE OrderBySequenceNumDesc(_)
OrderBySequenceNumDesc(S) ==
    IF S = {} THEN <<>>
    ELSE LET r == CHOOSE r \in S : \A q \in S : r.sequence_num >= q.sequence_num
         IN <<r>> \o OrderBySequenceNumDesc(S \ {r})

\* ORDER BY sequence_num over a set of rel rows.
RECURSIVE OrderBySequenceNum(_)
OrderBySequenceNum(S) ==
    IF S = {} THEN <<>>
    ELSE LET r == CHOOSE r \in S : \A q \in S : r.sequence_num <= q.sequence_num
         IN <<r>> \o OrderBySequenceNum(S \ {r})

\* ------------------------------------------------------------- queries
\* FindChatgptMessageByMastodonStatusId: the rows the WHERE clause matches;
\* the :one query hands back whichever of them the server returns first.
FindChatgptMessageByMastodonStatusId(sid) ==
    {m \in MessageIds : chatgpt_messages[m].mastodon_status_id = sid}

\* GetChatgptThreadRels grouped by thread id (findThreadsContainingMessageId).
findThreadsContainingMessageId(mid) ==
    LET tids == {r.thread_id : r \in {q \in chatgpt_threads_rel : q.chatgpt_message_id = mid}}
    IN [t \in tids |-> OrderBySequenceNum({r \in chatgpt_threads_rel : r.thread_id = t})]

\* Mutant: MIN(sequence_num) where the query says MAX.
GetMaxSequenceNum_Min(t) ==
    LET S == {r.sequence_num : r \in {q \in chatgpt_threads_rel : q.thread_id = t}}
    IN IF S = {} THEN 0 ELSE CHOOSE x \in S : \A y \in S : x <= y

GetMaxSequenceNum(t) ==
    LET S == {r.sequence_num : r \in {q \in chatgpt_threads_rel : q.thread_id = t}}
    IN IF S = {} THEN 0 ELSE Max(S)

\* GetChatgptMessagesByThreadId: the joined rows of a thread that are not
\* pseudo messages, in sequence_num order (rel rows stand for the joined rows).
GetChatgptMessagesByThreadId(t) ==
    OrderBySequenceNum({r \in chatgpt_threads_rel :
        /\ r.thread_id = t
        /\ r.chatgpt_message_id \in MessageIds
        /\ chatgpt_messages[r.chatgpt_message_id].message_type # "pseudo_message"})

RestoreThread(t) == GetChatgptMessagesByThreadId(t)

\* The whole thread in sequence_num order, and the message it ends in.
ThreadRels(t) == OrderBySequenceNum({r \in chatgpt_threads_rel : r.thread_id = t})
ThreadMessages(t) == [k \in 1..Len(ThreadRels(t)) |-> ThreadRels(t)[k].chatgpt_message_id]

\* ------------------------------------------------ store operations
\* The store is PostgreSQL behind pgx.  A statement that fails inside a
\* transaction aborts it: every later statement of the transaction fails as
\* well and COMMIT then rolls back.  A parameter f names the call that fails
\* first ("none": no call fails).  Each operation yields the id and error it
\* returns and the tables as they are after it.
Result(id, e, m, t, r) ==
    [id |-> id, err |-> e, messages |-> m, threads |-> t, rels |-> r]

Unchanged(id, e) == Result(id, e, chatgpt_messages, chatgpt_threads, chatgpt_threads_rel)

\* Mutant: the newest thread there is is handed out again.
createNewThread_Reuse(f) ==
    IF f = "thread"
    THEN Unchanged(Nil, TRUE)
    ELSE Result(Max(chatgpt_threads \cup {1}), FALSE, chatgpt_messages,
                chatgpt_threads \cup {1}, chatgpt_threads_rel)

\* createNewThread: one INSERT outside any transaction.
createNewThread(f) ==
    IF f = "thread"
    THEN Unchanged(Nil, TRUE)
    ELSE Result(NewThreadId, FALSE, chatgpt_messages,
                chatgpt_threads \cup {NewThreadId}, chatgpt_threads_rel)

\* Mutant: the loop without its break, which copies the whole base thread.
ClonePrefix_NoBreak(baseThread, messageId) == baseThread

\* Mutant: the loop breaking before the insert, which leaves the cutoff out.
ClonePrefix_BeforeCutoff(baseThread, messageId) ==
    LET hits == {k \in 1..Len(baseThread) : baseThread[k].chatgpt_message_id = messageId}
        n == IF hits = {} THEN Len(baseThread)
             ELSE CHOOSE k \in hits : \A j \in hits : k <= j
    IN SubSeq(baseThread, 1, n - 1)

\* The rows cloneThread's loop visits: baseThread up to and including the
\* first row of messageId (all of it when no row matches).
ClonePrefix(baseThread, messageId) ==
    LET hits == {k \in 1..Len(baseThread) : baseThread[k].chatgpt_message_id = messageId}
        n == IF hits = {} THEN Len(baseThread)
             ELSE CHOOSE k \in hits : \A j \in hits : k <= j
    IN SubSeq(baseThread, 1, n)

\* cloneThread: the thread row is created through m.queries, before and
\* outside the transaction, so a rollback does not remove it; the rel rows
\* are inserted inside the transaction; the result of Commit is not looked at.
cloneThread(baseThread, messageId, f) ==
    LET created == createNewThread(f)
        newThreadId == created.id
        prefix == ClonePrefix(baseThread, messageId)
        copies == {[thread_id |-> newThreadId,
                    chatgpt_message_id |-> prefix[k].chatgpt_message_id,
                    sequence_num |-> prefix[k].sequence_num] : k \in 1..Len(prefix)}
    IN IF created.err THEN Unchanged(Nil, TRUE)
       ELSE IF f \in {"begin", "rel"}
       THEN Result(Nil, TRUE, chatgpt_messages, created.threads, chatgpt_threads_rel)
       ELSE IF f = "commit"
       THEN Result(newThreadId, FALSE, chatgpt_messages, created.threads, chatgpt_threads_rel)
       ELSE Result(newThreadId, FALSE, chatgpt_messages, created.threads,
                   chatgpt_threads_rel \cup copies)

\* The row ReconcileThread builds for an ancestor status.
ReconciledMessage(sid) ==
    [message_type |-> "mastodon_status",
     role |-> convertToMessage(sid),
     user_name |-> statuses[sid].account,
     mastodon_status_id |-> sid,
     privacy_level |-> getPrivacyLevel(sid)]

\* The ancestor whose created_at does not parse (0: none).
Skipped(f) ==
    CASE f = "parse1" -> 1
      [] f = "parse2" -> 2
      [] f = "parse3" -> 3
      [] OTHER -> 0

\* seq without its k-th element (seq itself when it has none).
Without(seq, k) ==
    IF k \in 1..Len(seq)
    THEN SubSeq(seq, 1, k - 1) \o SubSeq(seq, k + 1, Len(seq))
    ELSE seq

\* ReconcileThread: one message per ancestor (whether or not a row for that
\* status is stored already), the thread row and the rel rows 1..n, all in
\* one transaction.  An ancestor whose created_at does not parse is skipped
\* before any statement is sent.  A failing message insert is skipped, but
\* it has aborted the transaction, so the thread insert fails and the call
\* returns its error.  A failing rel insert is skipped too and the call goes
\* on to Commit, which rolls back, and returns thread.ID with a nil error;
\* the same happens when Commit itself fails.
ReconcileThread(statusId, f) ==
    LET tree == Without(Ancestors(statusId), Skipped(f))
        base == Len(chatgpt_messages)
        chatgptMessages == [k \in 1..Len(tree) |-> ReconciledMessage(tree[k])]
        thread == NewThreadId
        newRels == {[thread_id |-> thread,
                     chatgpt_message_id |-> base + k,
                     sequence_num |-> k] : k \in 1..Len(tree)}
    IN IF f \in {"tree", "begin", "message", "thread"}
       THEN Unchanged(Nil, TRUE)
       ELSE IF f \in {"rel", "commit"}
       THEN Unchanged(thread, FALSE)
       ELSE Result(thread, FALSE, chatgpt_messages \o chatgptMessages,
                   chatgpt_threads \cup {thread}, chatgpt_threads_rel \cup newRels)

\* Mutant: the rel row of the new message takes the place of the thread's
\* last rel row.
SaveMessageInThread_Replace(role, messageType, tid, userName, privacyLevel, statusId, f) ==
    LET seqNum == GetMaxSequenceNum(tid)
        chatgptMessage == [message_type |-> messageType,
                           role |-> role,
                           user_name |-> userName,
                           mastodon_status_id |-> statusId,
                           privacy_level |-> privacyLevel]
        newId == Len(chatgpt_messages) + 1
        kept == {r \in chatgpt_threads_rel :
                    ~(r.thread_id = tid /\ r.sequence_num = seqNum)}
        rel == [thread_id |-> tid, chatgpt_message_id |-> newId,
                sequence_num |-> IF seqNum = 0 THEN 1 ELSE seqNum]
    IN IF f \in {"begin", "max", "message", "rel"} \/ tid \notin chatgpt_threads
       THEN Unchanged(Nil, TRUE)
       ELSE IF f = "commit"
       THEN Unchanged(Nil, FALSE)
       ELSE Result(Nil, FALSE, Append(chatgpt_messages, chatgptMessage),
                   chatgpt_threads, kept \cup {rel})

\* SaveMessageInThread: read the maximum, insert the message, insert its rel
\* row at maximum + 1, all in one transaction; the result of Commit is not
\* looked at.  thread_id REFERENCES chatgpt_threads(id): the rel insert
\* fails for a thread id that has no row.
SaveMessageInThread(role, messageType, tid, userName, privacyLevel, statusId, f) ==
    LET seqNum == GetMaxSequenceNum(tid)
        chatgptMessage == [message_type |-> messageType,
                           role |-> role,
                           user_name |-> userName,
                           mastodon_status_id |-> statusId,
                           privacy_level |-> privacyLevel]
        newId == Len(chatgpt_messages) + 1
        rel == [thread_id |-> tid, chatgpt_message_id |-> newId,
                sequence_num |-> seqNum + 1]
    IN IF f \in {"begin", "max", "message", "rel"} \/ tid \notin chatgpt_threads
       THEN Unchanged(Nil, TRUE)
       ELSE IF f = "commit"
       THEN Unchanged(Nil, FALSE)
       ELSE Result(Nil, FALSE, Append(chatgpt_messages, chatgptMessage),
                   chatgpt_threads, chatgpt_threads_rel \cup {rel})

\* ------------------------------------------------ thread resolver
\* Mutant: no thread is taken to end in mid.
CurrentThreads_None(threads, mid) == {}

\* The threads of a findThreadsContainingMessageId result that end in mid.
CurrentThreads(threads, mid) ==
    {t \in DOMAIN threads : threads[t][Len(threads[t])].chatgpt_message_id = mid}

\* The branch GetOrCreateCurrentThreadId takes for a status, given the row
\* row the lookup of its parent returned (Nil: no row).
Branch(status, row) ==
    IF statuses[status].in_reply_to_id = Nil THEN "new"
    ELSE IF row = Nil THEN "reconcile"
    ELSE IF DOMAIN findThreadsContainingMessageId(row) = {} THEN "orphan"
    ELSE IF CurrentThreads(findThreadsContainingMessageId(row), row) # {} THEN "current"
    ELSE "clone"

\* The rows the parent lookup can return: one of the matching rows, or no
\* row (sql.ErrNoRows) when none matches.
ParentRows(status) ==
    LET found == FindChatgptMessageByMastodonStatusId(statuses[status].in_reply_to_id)
    IN IF statuses[status].in_reply_to_id = Nil \/ found = {} THEN {Nil} ELSE found

\* The threads the range over the map can stop at: a thread that ends in
\* row when there is one (the loop returns there), else the thread visited
\* last, which is any of them.
PickedThreads(status, row) ==
    IF Branch(status, row) = "current"
    THEN CurrentThreads(findThreadsContainingMessageId(row), row)
    ELSE IF Branch(status, row) = "clone"
    THEN DOMAIN findThreadsContainingMessageId(row)
    ELSE {Nil}

\* The calls that can fail on each branch.
BranchFaults(b) ==
    CASE b = "new" -> {"none", "thread"}
      [] b = "reconcile" -> {"none", "query", "tree", "begin", "parse1", "parse2", "parse3",
                             "message", "thread", "rel", "commit"}
      [] b = "orphan" -> {"none", "query", "thread"}
      [] b = "current" -> {"none", "query"}
      [] b = "clone" -> {"none", "query", "thread", "begin", "rel", "commit"}

GetOrCreateCurrentThreadId(status, row, pick, f) ==
    LET b == Branch(status, row)
    IN IF b = "new" THEN createNewThread(f)
       ELSE IF f = "query" THEN Unchanged(Nil, TRUE)
       ELSE IF b = "reconcile" THEN ReconcileThread(status, f)
       ELSE IF b = "orphan" THEN createNewThread(f)
       ELSE IF b = "current" THEN Unchanged(pick, FALSE)
       ELSE cloneThread(findThreadsContainingMessageId(row)[pick], row, f)


TypeOK ==
    /\ Len(statuses) <= MaxPosts
    /\ \A s \in 1..Len(statuses) : statuses[s].in_reply_to_id \in 0..(s - 1)
    /\ \A r \in chatgpt_threads_rel : r.chatgpt_message_id \in MessageIds
    /\ faults \in 0..MaxFaults
    /\ pc \in {"idle", "loop", "resolve", "chat", "saveUser", "post", "saveReply", "advance"}
    /\ \A n \in 1..Len(notifications) :
        /\ notifications[n].status \in 1..Len(statuses)
        /\ n > 1 => notifications[n].id = notifications[n - 1].id + 1
    /\ reply \in 0..Len(notifications)

\* The components at rest.
Appenders == {1, 2}
Providers == {"noop", "fakeA", "fakeB"}

NoChat ==
    [impl |-> "none", pc |-> "idle", i |-> 0, toolCalls |-> FALSE,
     lastRole |-> "none", attempt |-> 0, calls |-> 0, outcome |-> "none",
     cause |-> "none"]

NoAppenders == [a \in Appenders |-> [pc |-> "idle", seqNum |-> 0, saved |-> 0]]

NoSplit == [pc |-> "idle", t |-> <<>>, maxPartLen |-> 0, parts |-> <<>>]

NoMetrics ==
    [globalProv |-> "noop", ctx |-> "none", txn |-> "none", external |-> "none",
     noticed |-> [p \in Providers |-> 0],
     txnsStarted |-> [p \in Providers |-> 0],
     txnsEnded |-> [p \in Providers |-> 0],
     externalsStarted |-> [p \in Providers |-> 0],
     externalsEnded |-> [p \in Providers |-> 0],
     calls |-> 0, op |-> "none", arg |-> "none"]

NoServer == [returned |-> FALSE, ret |-> "none"]

NoTools ==
    [impl |-> "none", pc |-> "idle", history |-> <<>>, calls |-> <<>>,
     results |-> <<>>, finished |-> <<>>, turns |-> 0]

NoHist ==
    [pc |-> "idle", messages |-> <<>>, threads |-> <<>>, blocks |-> 0,
     acct |-> "none", threadIds |-> <<>>, result |-> <<>>, err |-> FALSE]

NoRetry ==
    [impl |-> "none", pc |-> "idle", given |-> 0, maxAttempts |-> 0, i |-> 0,
     events |-> <<>>, lastErr |-> 0, result |-> "none", wrapped |-> 0]

MoreIdle ==
    /\ server = NoServer
    /\ tools = NoTools
    /\ failed = "none"
    /\ hist = NoHist
    /\ retry = NoRetry

InitFrontend ==
    /\ statuses = <<>>
    /\ notifications = <<>>
    /\ chatgpt_messages = <<>>
    /\ chatgpt_threads = {}
    /\ chatgpt_threads_rel = {}
    /\ LastNotificationID = Nil
    /\ stateFile = Nil
    /\ pc = "idle"
    /\ replies = <<>>
    /\ reply = Nil
    /\ mes = Nil
    /\ threadId = Nil
    /\ texts = 0
    /\ i = 0
    /\ inReplyToId = Nil
    /\ err = FALSE
    /\ last = "none"
    /\ how = "none"
    /\ faults = 0
    /\ ctxDone = FALSE
    /\ MoreIdle

Init ==
    /\ InitFrontend
    /\ chat = NoChat
    /\ appenders = NoAppenders
    /\ split = NoSplit
    /\ metrics = NoMetrics

\* ------------------------------------------------ actions
\* A call may fail only while the fault budget lasts.
MayFail(f) == f = "none" \/ faults < MaxFaults
Charge(f) == faults' = faults + (IF f = "none" THEN 0 ELSE 1)

\* A step whose store calls take ctx: once ctx is cancelled the first of
\* them (first) returns ctx.Err(), which is no injected fault.
MayFailCtx(f, first) == IF ctxDone THEN f = first ELSE MayFail(f)
ChargeCtx(f) == faults' = faults + (IF f = "none" \/ ctxDone THEN 0 ELSE 1)

\* Mutant: a failed notification ends the batch.
Continue_Return == "idle"

\* Run, lines 572-576: a failed notification is logged and the loop goes on
\* with the next one.
Continue == "loop"

\* Mutant: every chunk is saved as the response.
MessageTypeOfChunk_Response(k) == "ai_response"

\* ReplyAndPost, lines 541-552: the first chunk's status id goes with the
\* response, every later chunk's with a pseudo message.
MessageTypeOfChunk(k) == IF k = 0 THEN "ai_response" ELSE "pseudo_message"

\* The status of the notification being handled (reply.Status).
Status == notifications[reply].status

\* The id the server gives the next notification.
NextNotificationIds ==
    IF notifications = <<>> THEN NotificationIdStarts
    ELSE {notifications[Len(notifications)].id + 1}

\* A user posts a status, a root or a reply to any status, and mentions the
\* bot in it or not.  Statuses that arrive while a batch is being handled
\* are seen by the next fetch only, so they are let in between cycles.
UserPosts(visibilities) ==
    /\ pc = "idle"
    /\ Len(statuses) < MaxPosts
    /\ \E u \in Users : \E parent \in 0..Len(statuses) : \E mention \in BOOLEAN :
       \E nid \in NextNotificationIds : \E v \in visibilities :
        /\ statuses' = Append(statuses, [in_reply_to_id |-> parent, account |-> u,
                                         visibility |-> v])
        /\ notifications' =
            IF mention
            THEN Append(notifications, [id |-> nid, status |-> Len(statuses) + 1])
            ELSE notifications
    /\ UNCHANGED components
    /\ UNCHANGED <<store, cursor, pc, replies, reply, mes, threadId, texts, i,
                   inReplyToId, err, last, how, faults>>

\* A public post.
UserPost == UserPosts({"public"})

\* A direct message to the bot.
UserPostPrivate == UserPosts({"direct"})

\* The notifications after since_id, newest first (the server compares ids
\* as numbers).
RECURSIVE NewestFirst(_, _)
NewestFirst(sinceId, n) ==
    IF n = 0 THEN <<>>
    ELSE IF notifications[n].id > sinceId THEN <<n>> \o NewestFirst(sinceId, n - 1)
    ELSE NewestFirst(sinceId, n - 1)

\* Mutant: the head of RunServer's loop does not look at ctx.
DefaultBranch_Always == TRUE

\* RunServer, part_008 lines 167-171: the select at the head of the loop
\* takes its default branch only while ctx.Done() is not ready.
DefaultBranch == ~ctxDone

\* RunServer, lines 165-187, and Run, lines 559-567: unless ctx is cancelled,
\* fetch the batch; Run returns when the fetch fails, and RunServer starts
\* the next cycle after its delay.
GetAllNotifications ==
    /\ pc = "idle"
    /\ DefaultBranch
    /\ \E f \in {"none", "fetch"} :
        /\ MayFail(f)
        /\ Charge(f)
        /\ err' = (f # "none")
        /\ replies' = IF f = "none"
                      THEN NewestFirst(LastNotificationID, Len(notifications))
                      ELSE <<>>
        /\ pc' = IF f = "none" THEN "loop" ELSE "idle"
    /\ last' = "GetAllNotifications"
    /\ UNCHANGED components
    /\ UNCHANGED <<network, store, cursor, reply, mes, threadId, texts, i,
                   inReplyToId, how>>

\* Run, line 570: the head of the for loop; return when the batch is done.
NextReply ==
    /\ pc = "loop"
    /\ IF replies = <<>>
       THEN /\ pc' = "idle"
            /\ reply' = Nil
            /\ replies' = replies
       ELSE /\ pc' = "resolve"
            /\ reply' = Head(replies)
            /\ replies' = Tail(replies)
    /\ mes' = Nil
    /\ threadId' = Nil
    /\ texts' = 0
    /\ i' = 0
    /\ inReplyToId' = Nil
    /\ err' = FALSE
    /\ how' = "none"
    /\ last' = "none"
    /\ UNCHANGED components
    /\ UNCHANGED <<network, store, cursor, faults>>

\* ReplyTo, lines 428-474: read the histories, then resolve the thread.
Resolve ==
    /\ pc = "resolve"
    /\ \E row \in ParentRows(Status) : \E pick \in PickedThreads(Status, row) :
       \E f \in BranchFaults(Branch(Status, row)) \cup {"history"} :
        LET r == IF f = "history" THEN Unchanged(Nil, TRUE)
                 ELSE GetOrCreateCurrentThreadId(Status, row, pick, f)
        IN /\ MayFailCtx(f, "history")
           /\ Skipped(f) <= Len(Ancestors(Status))
           /\ ChargeCtx(f)
           /\ chatgpt_messages' = r.messages
           /\ chatgpt_threads' = r.threads
           /\ chatgpt_threads_rel' = r.rels
           /\ threadId' = r.id
           /\ err' = r.err
           /\ how' = IF f \in {"history", "query"} THEN "none" ELSE Branch(Status, row)
           /\ mes' = IF f \in {"history", "query"} THEN Nil ELSE row
           /\ pc' = IF r.err THEN Continue ELSE "chat"
           /\ failed' = f
    /\ last' = "GetOrCreateCurrentThreadId"
    /\ UNCHANGED <<ctxDone, chat, appenders, split, metrics, server, tools, hist, retry>>
    /\ UNCHANGED <<network, cursor, replies, reply, texts, i, inReplyToId>>

\* ReplyTo, lines 475-497, and ReplyAndPost, lines 513-522: restore the
\* thread, call the model, split the reply.
Chat ==
    /\ pc = "chat"
    /\ \E f \in {"none", "restore", "chat", "split"} : \E n \in 1..MaxChunks :
        /\ MayFailCtx(f, "restore")
        /\ ChargeCtx(f)
        /\ err' = (f # "none")
        /\ texts' = IF f = "none" THEN n ELSE 0
        /\ pc' = IF f = "none" THEN "saveUser" ELSE Continue
    /\ last' = "Chat"
    /\ UNCHANGED components
    /\ UNCHANGED <<network, store, cursor, replies, reply, mes, threadId, i,
                   inReplyToId, how>>

\* ReplyAndPost, lines 524-529: save the user's message.
SaveUser ==
    /\ pc = "saveUser"
    /\ \E f \in {"none", "begin", "max", "message", "rel", "commit"} :
        LET r == SaveMessageInThread(convertToMessage(Status), "user_status",
                     threadId, statuses[Status].account, getPrivacyLevel(Status),
                     Status, f)
        IN /\ MayFailCtx(f, "begin")
           /\ ChargeCtx(f)
           /\ chatgpt_messages' = r.messages
           /\ chatgpt_threads_rel' = r.rels
           /\ err' = r.err
           /\ pc' = IF r.err THEN Continue ELSE "post"
    /\ inReplyToId' = Status
    /\ i' = 0
    /\ last' = "SaveMessageInThread"
    /\ UNCHANGED components
    /\ UNCHANGED <<network, chatgpt_threads, cursor, replies, reply, mes, threadId,
                   texts, how>>

\* The visibility the server gives a status that is posted without one.
DefaultVisibility == "public"

\* Mutant: the status is posted without a visibility.
PostedVisibility_Default(visibility) == DefaultVisibility

\* Client.PostStatus, internal/mastodon/mastodon.go lines 206-208: the
\* visibility of the options is sent unless it is empty.
PostedVisibility(visibility) ==
    IF visibility = "" THEN DefaultVisibility ELSE visibility

\* ReplyAndPost, lines 530-538: post chunk i in reply to inReplyToId, with
\* the visibility of the status that is replied to.
PostStatus ==
    /\ pc = "post"
    /\ \E f \in {"none", "post"} :
        /\ MayFail(f)
        /\ Charge(f)
        /\ err' = (f # "none")
        /\ IF f = "none"
           THEN /\ Len(statuses) < MaxPosts
                /\ statuses' = Append(statuses, [in_reply_to_id |-> inReplyToId,
                                                 account |-> MyAccountID,
                                                 visibility |-> PostedVisibility(
                                                     statuses[Status].visibility)])
                /\ pc' = "saveReply"
           ELSE /\ statuses' = statuses
                /\ pc' = Continue
    /\ last' = "PostStatus"
    /\ UNCHANGED components
    /\ UNCHANGED <<notifications, store, cursor, replies, reply, mes, threadId,
                   texts, i, inReplyToId, how>>

\* ReplyAndPost, lines 540-553: save the response under the first chunk's
\* status id, a pseudo message under every later chunk's.
SaveReply ==
    /\ pc = "saveReply"
    /\ \E f \in {"none", "begin", "max", "message", "rel", "commit"} :
        LET newStatus == Len(statuses)
            r == SaveMessageInThread(
                     IF i = 0 THEN "assistant" ELSE convertToMessage(newStatus),
                     MessageTypeOfChunk(i), threadId,
                     IF i = 0 THEN MyAccountID ELSE statuses[newStatus].account,
                     getPrivacyLevel(Status), newStatus, f)
        IN /\ MayFailCtx(f, "begin")
           /\ ChargeCtx(f)
           /\ chatgpt_messages' = r.messages
           /\ chatgpt_threads_rel' = r.rels
           /\ err' = r.err
           /\ inReplyToId' = IF r.err THEN inReplyToId ELSE newStatus
           /\ i' = IF r.err THEN i ELSE i + 1
           /\ pc' = IF r.err THEN Continue
                    ELSE IF i + 1 < texts THEN "post" ELSE "advance"
    /\ last' = "SaveMessageInThread"
    /\ UNCHANGED components
    /\ UNCHANGED <<network, chatgpt_threads, cursor, replies, reply, mes, threadId,
                   texts, how>>

\* Run, lines 578-584: advance the cursor and save it; Run returns when the
\* save fails.
Advance ==
    /\ pc = "advance"
    /\ LastNotificationID' =
        IF StrLess(Digits(LastNotificationID), Digits(notifications[reply].id))
        THEN notifications[reply].id ELSE LastNotificationID
    /\ \E f \in {"none", "state"} :
        /\ MayFail(f)
        /\ Charge(f)
        /\ err' = (f # "none")
        /\ stateFile' = IF f = "none" THEN LastNotificationID' ELSE stateFile
        /\ pc' = IF f = "none" THEN "loop" ELSE "idle"
        /\ replies' = IF f = "none" THEN replies ELSE <<>>
    /\ last' = "SaveState"
    /\ UNCHANGED components
    /\ UNCHANGED <<network, store, reply, mes, threadId, texts, i, inReplyToId, how>>

\* The process dies while a batch is being handled and is started again:
\* NewMastodonTeobotFrontend loads the cursor from the state file, the batch
\* and the locals of Run are lost, and main makes a new context.
Crash ==
    /\ pc # "idle"
    /\ faults < MaxFaults
    /\ faults' = faults + 1
    /\ LastNotificationID' = stateFile
    /\ pc' = "idle"
    /\ replies' = <<>>
    /\ reply' = Nil
    /\ mes' = Nil
    /\ threadId' = Nil
    /\ texts' = 0
    /\ i' = 0
    /\ inReplyToId' = Nil
    /\ err' = FALSE
    /\ how' = "none"
    /\ last' = "Crash"
    /\ ctxDone' = FALSE
    /\ UNCHANGED <<chat, appenders, split, metrics, more>>
    /\ UNCHANGED <<network, store, stateFile>>

Next ==
    \/ UserPost
    \/ GetAllNotifications
    \/ NextReply
    \/ Resolve
    \/ Chat
    \/ SaveUser
    \/ PostStatus
    \/ SaveReply
    \/ Advance
    \/ Crash

Spec == Init /\ [][Next]_vars

\* ================================================ shutdown (main, RunServer)
\* main, part_008 lines 213-224: SIGINT or SIGTERM cancels the context that
\* RunServer, Run and through them every store call were given.  The signal
\* can arrive at any moment of a cycle.
Cancel ==
    /\ ~ctxDone
    /\ ctxDone' = TRUE
    /\ UNCHANGED <<frontend, chat, appenders, split, metrics, more>>

NextShutdown == Next \/ Cancel

SpecShutdown == Init /\ [][NextShutdown]_vars

\* ================================================ private posts
\* The frontend with users who also send the bot direct messages.
NextPrivacy == Next \/ UserPostPrivate

SpecPrivacy == Init /\ [][NextPrivacy]_vars

\* GetRecentThreadIdsByUserName: the threads that hold a message of the
\* user that is no pseudo message (the LIMIT of 100 messages is not reached
\* by a store of MaxPosts statuses).
GetRecentThreadIdsByUserName(userName) ==
    {r.thread_id : r \in {q \in chatgpt_threads_rel :
        /\ q.chatgpt_message_id \in MessageIds
        /\ chatgpt_messages[q.chatgpt_message_id].user_name = userName
        /\ chatgpt_messages[q.chatgpt_message_id].message_type # "pseudo_message"}}

\* BuildThreadHistory: the threads whose messages make up the summaries;
\* the result is cut to its first RecentThreads threads.
RecentThreads == 10
BuildThreadHistory(acct) ==
    LET threadIds == GetRecentThreadIdsByUserName(acct)
    IN IF Cardinality(threadIds) > RecentThreads
       THEN CHOOSE S \in SUBSET threadIds : Cardinality(S) = RecentThreads
       ELSE threadIds

\* The messages ReplyTo puts between <threads> and </threads> for a status.
ThreadHistoryMessages(status) ==
    UNION {{GetChatgptMessagesByThreadId(t)[k].chatgpt_message_id :
                k \in 1..Len(GetChatgptMessagesByThreadId(t))} :
           t \in BuildThreadHistory(statuses[status].account)}

\* ================================================ TeobotService.Chat
\* One chat call: the Go service's Chat (impl "go") and the TypeScript
\* service's chat inside withRetry, as replyToStatus calls it (impl "ts").
\* A call of the model returns an error, a response that requests tools or
\* a final response.
MaxToolRounds == 10
MaxAttempts == 3
Responses == {"error", "tools", "final"}

ChatStart(impl) ==
    [impl |-> impl, pc |-> "call", i |-> 0, toolCalls |-> FALSE,
     lastRole |-> "user", attempt |-> IF impl = "ts" THEN 1 ELSE 0,
     calls |-> 0, outcome |-> "none", cause |-> "none"]

\* for i := 0; i < 10; i++: the loop is over after the n-th round.
ToolLoopEnds(n) == n >= MaxToolRounds

\* Chat, lines 338-345: the first call of the model.
ChatFirstCall ==
    /\ chat.impl = "go"
    /\ chat.pc = "call"
    /\ \E r \in Responses :
        chat' = IF r = "error"
                THEN [chat EXCEPT !.pc = "done", !.outcome = "error",
                                  !.cause = "network", !.calls = @ + 1]
                ELSE [chat EXCEPT !.pc = IF r = "tools" THEN "round" ELSE "return",
                                  !.toolCalls = (r = "tools"),
                                  !.lastRole = "assistant", !.calls = @ + 1]
    /\ UNCHANGED <<frontend, ctxDone, appenders, split, metrics, more>>

\* Chat, lines 347-383: one round of the loop: run the tools, call the
\* model again; leave the loop on a response without tool calls or when the
\* bound is reached.
ChatToolRound ==
    /\ chat.impl = "go"
    /\ chat.pc = "round"
    /\ \E r \in Responses :
        chat' = IF r = "error"
                THEN [chat EXCEPT !.pc = "done", !.outcome = "error",
                                  !.cause = "network", !.calls = @ + 1]
                ELSE [chat EXCEPT !.pc = IF r = "final" \/ ToolLoopEnds(chat.i + 1)
                                         THEN "return" ELSE "round",
                                  !.toolCalls = (r = "tools"),
                                  !.lastRole = "assistant",
                                  !.i = @ + 1, !.calls = @ + 1]
    /\ UNCHANGED <<frontend, ctxDone, appenders, split, metrics, more>>

\* Chat, lines 386-409: the last response is returned with a nil error.
ChatReturn ==
    /\ chat.impl = "go"
    /\ chat.pc = "return"
    /\ chat' = [chat EXCEPT !.pc = "done", !.outcome = "response"]
    /\ UNCHANGED <<frontend, ctxDone, appenders, split, metrics, more>>

\* teobotService.ts chat, lines 123-156: one iteration: call the model, run
\* the tools it asks for and push their messages, or break.
chatIteration ==
    /\ chat.impl = "ts"
    /\ chat.pc = "call"
    /\ \E r \in Responses :
        chat' = IF r = "error"
                THEN [chat EXCEPT !.pc = "thrown", !.cause = "network",
                                  !.calls = @ + 1]
                ELSE IF r = "tools"
                THEN [chat EXCEPT !.pc = IF ToolLoopEnds(chat.i + 1)
                                         THEN "check" ELSE "call",
                                  !.toolCalls = TRUE, !.lastRole = "tool",
                                  !.i = @ + 1, !.calls = @ + 1]
                ELSE [chat EXCEPT !.pc = "check", !.toolCalls = FALSE,
                                  !.lastRole = "assistant", !.calls = @ + 1]
    /\ UNCHANGED <<frontend, ctxDone, appenders, split, metrics, more>>

\* chat, lines 158-169: throw unless the last message is an assistant's
\* without tool calls.
chatCheck ==
    /\ chat.impl = "ts"
    /\ chat.pc = "check"
    /\ chat' = IF chat.lastRole # "assistant" \/ chat.toolCalls
               THEN [chat EXCEPT !.pc = "thrown", !.cause = "exhausted"]
               ELSE [chat EXCEPT !.pc = "done", !.outcome = "response"]
    /\ UNCHANGED <<frontend, ctxDone, appenders, split, metrics, more>>

\* withRetry, lines 55-67: whatever body threw, run it again unless this
\* was the last attempt; body is chat, which starts from a new copy of the
\* context.
withRetry ==
    /\ chat.impl = "ts"
    /\ chat.pc = "thrown"
    /\ chat' = IF chat.attempt = MaxAttempts
               THEN [chat EXCEPT !.pc = "done", !.outcome = "error"]
               ELSE [chat EXCEPT !.pc = "call", !.attempt = @ + 1, !.i = 0,
                                 !.toolCalls = FALSE, !.lastRole = "user",
                                 !.cause = "none"]
    /\ UNCHANGED <<frontend, ctxDone, appenders, split, metrics, more>>

InitChat ==
    /\ InitFrontend
    /\ chat \in {ChatStart("go"), ChatStart("ts")}
    /\ appenders = NoAppenders
    /\ split = NoSplit
    /\ metrics = NoMetrics

NextChat ==
    \/ ChatFirstCall
    \/ ChatToolRound
    \/ ChatReturn
    \/ chatIteration
    \/ chatCheck
    \/ withRetry

SpecChat == InitChat /\ [][NextChat]_vars

\* ================================================ concurrent appenders
\* Two callers of SaveMessageInThread on one thread, each in its own
\* transaction (pgx's default level, READ COMMITTED): a statement sees the
\* rows committed before it started, and a transaction's inserts are seen
\* by the other one after its COMMIT.
MaxSaves == 2
SharedThread == 1

AppenderStep(a, at, to) ==
    /\ appenders[a].pc = at
    /\ appenders' = [appenders EXCEPT ![a].pc = to]
    /\ UNCHANGED <<frontend, ctxDone, chat, split, metrics, more>>

\* SaveMessageInThread, line 376: pool.Begin.
TxBegin(a) ==
    /\ appenders[a].saved < MaxSaves
    /\ AppenderStep(a, "idle", "max")

\* Line 383: GetMaxSequenceNum over the committed rows.
TxGetMaxSequenceNum(a) ==
    /\ appenders[a].pc = "max"
    /\ appenders' = [appenders EXCEPT ![a].pc = "message",
                                      ![a].seqNum = GetMaxSequenceNum(SharedThread)]
    /\ UNCHANGED <<frontend, ctxDone, chat, split, metrics, more>>

\* Line 397: CreateChatgptMessage.
TxCreateChatgptMessage(a) == AppenderStep(a, "message", "rel")

\* Line 410: CreateChatgptThreadRel at seqNum + 1.
TxCreateChatgptThreadRel(a) == AppenderStep(a, "rel", "commit")

\* Line 418: Commit makes the two rows visible.
TxCommit(a) ==
    /\ appenders[a].pc = "commit"
    /\ chatgpt_messages' = Append(chatgpt_messages,
            [message_type |-> "user_status", role |-> "user", user_name |-> "alice",
             mastodon_status_id |-> Nil, privacy_level |-> "public"])
    /\ chatgpt_threads_rel' = chatgpt_threads_rel \cup
            {[thread_id |-> SharedThread,
              chatgpt_message_id |-> Len(chatgpt_messages) + 1,
              sequence_num |-> appenders[a].seqNum + 1]}
    /\ appenders' = [appenders EXCEPT ![a].pc = "idle", ![a].saved = @ + 1]
    /\ UNCHANGED <<network, chatgpt_threads, cursor, pc, replies, reply, mes,
                   threadId, texts, i, inReplyToId, err, last, how, faults,
                   ctxDone, chat, split, metrics, more>>

\* The store after createNewThread has made the thread both callers use.
InitConcurrent ==
    /\ statuses = <<>>
    /\ notifications = <<>>
    /\ chatgpt_messages = <<>>
    /\ chatgpt_threads = {SharedThread}
    /\ chatgpt_threads_rel = {}
    /\ LastNotificationID = Nil
    /\ stateFile = Nil
    /\ pc = "idle"
    /\ replies = <<>>
    /\ reply = Nil
    /\ mes = Nil
    /\ threadId = Nil
    /\ texts = 0
    /\ i = 0
    /\ inReplyToId = Nil
    /\ err = FALSE
    /\ last = "none"
    /\ how = "none"
    /\ faults = 0
    /\ ctxDone = FALSE
    /\ MoreIdle
    /\ chat = NoChat
    /\ appenders = NoAppenders
    /\ split = NoSplit
    /\ metrics = NoMetrics

NextConcurrent ==
    \E a \in Appenders :
        \/ TxBegin(a)
        \/ TxGetMaxSequenceNum(a)
        \/ TxCreateChatgptMessage(a)
        \/ TxCreateChatgptThreadRel(a)
        \/ TxCommit(a)

SpecConcurrent == InitConcurrent /\ [][NextConcurrent]_vars

\* ================================================ textsplit.SplitText
\* A text is a sequence of runes; Len counts runes (text.Text.Len).
MaxTextLen == 6
MaxPartLen == 3
Newline == "\n"
Runes == {"a", Newline}
Texts == UNION {[1..n -> Runes] : n \in 0..MaxTextLen}

\* Text.Split(t, "\n") (strings.Split): the pieces between the newlines;
\* a text without newline, the empty one too, is one piece.
RECURSIVE Split(_)
Split(t) ==
    IF \A k \in 1..Len(t) : t[k] # Newline THEN <<t>>
    ELSE LET k == CHOOSE k \in 1..Len(t) :
                     t[k] = Newline /\ \A j \in 1..(k - 1) : t[j] # Newline
         IN <<SubSeq(t, 1, k - 1)>> \o Split(SubSeq(t, k + 1, Len(t)))

\* Mutant: the newline that joins the line to the part is not counted.
Fits_NoSeparator(partLen, lineLen, maxPartLen) == partLen + lineLen <= maxPartLen

\* SplitText, line 31: the test that lets a line join the current part.
Fits(partLen, lineLen, maxPartLen) == partLen + 1 + lineLen <= maxPartLen

\* SplitText, lines 27-41: the body of the loop for one line.
AddLine(parts, line, maxPartLen) ==
    LET n == Len(parts)
    IN IF Fits(Len(parts[n]), Len(line), maxPartLen)
       THEN [parts EXCEPT ![n] =
                (IF Len(parts[n]) > 0 THEN Append(parts[n], Newline) ELSE parts[n])
                    \o line]
       ELSE Append(parts, line)

RECURSIVE SplitLines(_, _, _)
SplitLines(parts, lines, maxPartLen) ==
    IF lines = <<>> THEN parts
    ELSE SplitLines(AddLine(parts, Head(lines), maxPartLen), Tail(lines), maxPartLen)

\* SplitText: parts starts as one empty part.
SplitText(t, maxPartLen) == SplitLines(<< <<>> >>, Split(t), maxPartLen)

\* strings.Join(parts, "\n").
RECURSIVE Join(_)
Join(parts) ==
    IF parts = <<>> THEN <<>>
    ELSE IF Len(parts) = 1 THEN parts[1]
    ELSE parts[1] \o <<Newline>> \o Join(Tail(parts))

\* A caller hands SplitText a text and a limit.
CallSplitText ==
    /\ split.pc = "call"
    /\ split' = [split EXCEPT !.pc = "done",
                              !.parts = SplitText(split.t, split.maxPartLen)]
    /\ UNCHANGED <<frontend, ctxDone, chat, appenders, metrics, more>>

InitSplit ==
    /\ InitFrontend
    /\ chat = NoChat
    /\ appenders = NoAppenders
    /\ \E t \in Texts : \E maxPartLen \in 1..MaxPartLen :
        split = [pc |-> "call", t |-> t, maxPartLen |-> maxPartLen, parts |-> <<>>]
    /\ metrics = NoMetrics

NextSplit == CallSplitText

SpecSplit == InitSplit /\ [][NextSplit]_vars

\* ================================================ package metrics
\* Providers: the no-op provider and two recording ones (the tests'
\* fakeProvider).  metrics.ctx is the value a context carries under
\* providerKey: a provider, "nil" (WithProvider(ctx, nil)) or "none"
\* (context.Background()).
MaxCalls == 3
Recording == {"fakeA", "fakeB"}

\* Mutant: the global provider is used whatever the context carries.
from_Global(ctx) == metrics.globalProv

\* from: the context's provider when it carries one that is not nil.
from(ctx) == IF ctx \in Providers THEN ctx ELSE metrics.globalProv

\* Provider.NoticeError: a recording provider records an error that is not nil.
Records(p, e) == p \in Recording /\ e # "nil"

Called == metrics.calls < MaxCalls

\* SetGlobal(p), line 124.
SetGlobal ==
    /\ Called
    /\ \E p \in Providers :
        metrics' = [metrics EXCEPT !.globalProv = p, !.calls = @ + 1,
                                   !.op = "SetGlobal", !.arg = p]
    /\ UNCHANGED <<frontend, ctxDone, chat, appenders, split, more>>

\* WithProvider(ctx, p), lines 132-134.
WithProvider ==
    /\ Called
    /\ \E p \in Providers \cup {"nil"} :
        metrics' = [metrics EXCEPT !.ctx = p, !.calls = @ + 1,
                                   !.op = "WithProvider", !.arg = p]
    /\ UNCHANGED <<frontend, ctxDone, chat, appenders, split, more>>

\* NoticeError(ctx, err), line 196.
NoticeError ==
    /\ Called
    /\ \E e \in {"nil", "boom"} :
        LET p == from(metrics.ctx)
        IN metrics' = [metrics EXCEPT
                !.noticed[p] = @ + (IF Records(p, e) THEN 1 ELSE 0),
                !.calls = @ + 1, !.op = "NoticeError", !.arg = e]
    /\ UNCHANGED <<frontend, ctxDone, chat, appenders, split, more>>

\* StartTxn(ctx, name), lines 172-179: the provider's StartTxn; its end
\* function is wrapped in a txnEnder.
StartTxn ==
    /\ Called
    /\ LET p == from(metrics.ctx)
       IN metrics' = [metrics EXCEPT
                !.txnsStarted[p] = @ + (IF p \in Recording THEN 1 ELSE 0),
                !.txn = p,
                !.calls = @ + 1, !.op = "StartTxn", !.arg = "none"]
    /\ UNCHANGED <<frontend, ctxDone, chat, appenders, split, more>>

\* txnEnder.End, lines 165-169: call the end function.
TxnEnd ==
    /\ Called
    /\ metrics.txn # "none"
    /\ metrics' = [metrics EXCEPT
            !.txnsEnded[metrics.txn] = @ + (IF metrics.txn \in Recording THEN 1 ELSE 0),
            !.calls = @ + 1, !.op = "End", !.arg = "none"]
    /\ UNCHANGED <<frontend, ctxDone, chat, appenders, split, more>>

\* StartExternalSegment(ctx, url), lines 182-184.
StartExternalSegment ==
    /\ Called
    /\ LET p == from(metrics.ctx)
       IN metrics' = [metrics EXCEPT
                !.externalsStarted[p] = @ + (IF p \in Recording THEN 1 ELSE 0),
                !.external = p,
                !.calls = @ + 1, !.op = "StartExternalSegment", !.arg = "none"]
    /\ UNCHANGED <<frontend, ctxDone, chat, appenders, split, more>>

\* The function StartExternalSegment returned is called.
ExternalEnd ==
    /\ Called
    /\ metrics.external # "none"
    /\ metrics' = [metrics EXCEPT
            !.externalsEnded[metrics.external] =
                @ + (IF metrics.external \in Recording THEN 1 ELSE 0),
            !.calls = @ + 1, !.op = "end", !.arg = "none"]
    /\ UNCHANGED <<frontend, ctxDone, chat, appenders, split, more>>

NextMetrics ==
    \/ SetGlobal
    \/ WithProvider
    \/ NoticeError
    \/ StartTxn
    \/ TxnEnd
    \/ StartExternalSegment
    \/ ExternalEnd

SpecMetrics == Init /\ [][NextMetrics]_vars

\* ================================================ RunServer until it returns
\* RunServer, part_008 lines 165-187: both selects return ctx.Err() once
\* ctx.Done() is closed: the one at the head of the loop (its default branch,
\* the next cycle, runs only while ctx is live) and the one around the
\* 30-second delay.  When the timer and the signal are ready together and
\* the timer wins, the head of the loop returns instead.
RunServerReturn ==
    /\ pc = "idle"
    /\ ctxDone
    /\ ~server.returned
    /\ server' = [returned |-> TRUE, ret |-> "context canceled"]
    /\ UNCHANGED <<frontend, ctxDone, chat, appenders, split, metrics, tools, failed, hist,
                   retry>>

\* The steps of the goroutine that runs RunServer.
RunServerStep ==
    \/ GetAllNotifications
    \/ NextReply
    \/ Resolve
    \/ Chat
    \/ SaveUser
    \/ PostStatus
    \/ SaveReply
    \/ Advance
    \/ RunServerReturn

\* The server in a process that stays alive: users post, the signal arrives
\* at any moment, calls may fail.
NextServer ==
    \/ UserPost
    \/ Cancel
    \/ RunServerStep

\* The goroutine keeps running and every call it makes returns.
SpecServer == Init /\ [][NextServer]_vars /\ WF_vars(RunServerStep)

\* ================================================ tool calls of one turn
\* TeobotService.Chat (Go, part_002 lines 345-377) and chat (TypeScript,
\* teobotService.ts lines 119-164): the messages of one chat call, and the
\* tool calls of each turn of the model.
MaxToolCalls == 2      \* tool calls in one response of the model
MaxTurns == 2          \* responses with tool calls in one chat call

ToolCallIds == {"call_a", "call_b"}
KnownTools == {"get_weather_forecast"}
ToolNames == KnownTools \cup {"nope"}

\* The tool_calls the model may answer with: distinct ids, any names.
ToolCallLists ==
    {c \in UNION {[1..k -> [id : ToolCallIds, name : ToolNames]] : k \in 1..MaxToolCalls} :
        \A a \in 1..Len(c) : \A b \in 1..Len(c) : a # b => c[a].id # c[b].id}

UserMessage == [role |-> "user", content |-> "text", tool_calls |-> <<>>,
                tool_call_id |-> "none"]
AssistantMessage(c) == [role |-> "assistant", content |-> "text", tool_calls |-> c,
                        tool_call_id |-> "none"]
ToolMessage(res, id) == [role |-> "tool", content |-> res, tool_calls |-> <<>>,
                         tool_call_id |-> id]

\* executeToolCall, part_002 lines 413-492, and Chat, lines 356-359: what
\* the Go dispatcher makes of a call; an error becomes the text "Error: ...".
executeToolCall(name) ==
    IF name \in KnownTools THEN {"forecast", "error"} ELSE {"error"}

\* doToolCall, teobotService.ts lines 172-225: a known tool returns its
\* result or an error text of its own; any other name falls out of the
\* switch to the throw.
doToolCall(name) ==
    IF name \in KnownTools THEN {"forecast", "error"} ELSE {"thrown"}

\* Mutant: the results are gathered in the order the calls completed in.
Gathered_AsCompleted(k, finished) == finished

\* Promise.all (teobotService.ts line 143) and the for-range of Chat
\* (part_002 lines 353-366): the results come in the order of the calls.
Gathered(k, finished) == [n \in 1..k |-> n]

\* The tool messages of the turn.
ToolMessages(calls, results, order) ==
    [n \in 1..Len(order) |-> ToolMessage(results[order[n]], calls[order[n]].id)]

ToolsUnchanged ==
    UNCHANGED <<frontend, ctxDone, chat, appenders, split, metrics, server, failed, hist,
                retry>>

\* chat is called: the history is the context's plus the user's message.
ToolsChat ==
    /\ tools.pc = "idle"
    /\ \E impl \in {"go", "ts"} :
        tools' = [tools EXCEPT !.impl = impl, !.pc = "invoke",
                               !.history = <<UserMessage>>]
    /\ ToolsUnchanged

\* chatGPT.Chat (part_002 lines 338-342, 372-377) / completions
\* (teobotService.ts lines 125-126): the model answers, with tool calls or
\* without, and its message joins the history.
Completions ==
    /\ tools.pc = "invoke"
    /\ \E c \in {<<>>} \cup (IF tools.turns < MaxTurns THEN ToolCallLists ELSE {}) :
        tools' = [tools EXCEPT
            !.history = Append(@, AssistantMessage(c)),
            !.calls = c,
            !.results = [n \in 1..Len(c) |-> "pending"],
            !.finished = <<>>,
            !.turns = IF c = <<>> THEN @ ELSE @ + 1,
            !.pc = IF c = <<>> THEN "done" ELSE "tools"]
    /\ ToolsUnchanged

\* Chat, part_002 lines 353-369: the calls run one after the other; after
\* the last one the tool messages join the history.
GoToolCall ==
    /\ tools.pc = "tools"
    /\ tools.impl = "go"
    /\ LET j == Len(tools.finished) + 1
           k == Len(tools.calls)
       IN \E res \in executeToolCall(tools.calls[j].name) :
           LET results == [tools.results EXCEPT ![j] = res]
               finished == Append(tools.finished, j)
           IN tools' = [tools EXCEPT
                  !.results = results,
                  !.finished = finished,
                  !.history = IF j = k
                              THEN @ \o ToolMessages(tools.calls, results,
                                                     Gathered(k, finished))
                              ELSE @,
                  !.pc = IF j = k THEN "invoke" ELSE "tools"]
    /\ ToolsUnchanged

\* chat, teobotService.ts lines 129-142: every call was started by map and
\* any of the pending ones completes next.
TsToolCall ==
    /\ tools.pc = "tools"
    /\ tools.impl = "ts"
    /\ \E j \in 1..Len(tools.calls) : \E res \in doToolCall(tools.calls[j].name) :
        /\ tools.results[j] = "pending"
        /\ tools' = [tools EXCEPT !.results[j] = res,
                                  !.finished = Append(@, j)]
    /\ ToolsUnchanged

\* chat, teobotService.ts lines 143-150: Promise.all rejects with the first
\* rejection, and chat with it; it resolves when every call has completed,
\* and the tool messages join the history.
PromiseAll ==
    /\ tools.pc = "tools"
    /\ tools.impl = "ts"
    /\ LET k == Len(tools.calls)
       IN \/ /\ \E j \in 1..k : tools.results[j] = "thrown"
             /\ tools' = [tools EXCEPT !.pc = "thrown"]
          \/ /\ \A j \in 1..k : tools.results[j] \notin {"pending", "thrown"}
             /\ tools' = [tools EXCEPT
                    !.history = @ \o ToolMessages(tools.calls, tools.results,
                                                  Gathered(k, tools.finished)),
                    !.pc = "invoke"]
    /\ ToolsUnchanged

NextTools ==
    \/ ToolsChat
    \/ Completions
    \/ GoToolCall
    \/ TsToolCall
    \/ PromiseAll

SpecTools == Init /\ [][NextTools]_vars

\* ================================================ BuildThreadHistory
\* BuildThreadHistory (mastodon.go lines 341-373) over a store large enough
\* for its limits: chatgpt_messages as the rows in timestamp order, and
\* chatgpt_threads_rel as, for each thread id, its message ids in
\* sequence_num order.
MaxBlocks == 3         \* runs of messages saved before the call
MaxThreads == 12       \* threads in the store
RecentMessages == 100
BlockSizes == {1, 10, RecentMessages}
Accounts == {"alice", "bob", MyAccountID}

\* The rows the frontend saves: a user's statuses, the bot's responses and
\* the pseudo messages of the bot's later chunks.
RowKinds ==
    {[user_name |-> "alice", message_type |-> "user_status"],
     [user_name |-> MyAccountID, message_type |-> "ai_response"],
     [user_name |-> MyAccountID, message_type |-> "pseudo_message"]}

HistUnchanged ==
    UNCHANGED <<frontend, ctxDone, chat, appenders, split, metrics, server, tools, failed,
                retry>>

\* n more rows of one kind are saved: in one new thread, at the end of the
\* newest thread, or each in a new thread of its own.
SaveMessages ==
    /\ hist.pc = "idle"
    /\ hist.blocks < MaxBlocks
    /\ \E kind \in RowKinds : \E n \in BlockSizes : \E target \in {"new", "last", "spread"} :
        LET base == Len(hist.messages)
            T == Len(hist.threads)
            ids == [k \in 1..n |-> base + k]
        IN /\ target = "last" => T > 0
           /\ target = "spread" => n = 10
           /\ T + (IF target = "spread" THEN n ELSE 1) <= MaxThreads
           /\ hist' = [hist EXCEPT
                  !.blocks = @ + 1,
                  !.messages = @ \o [k \in 1..n |-> kind],
                  !.threads =
                      CASE target = "new" -> Append(@, ids)
                        [] target = "last" -> [@ EXCEPT ![T] = @ \o ids]
                        [] target = "spread" -> @ \o [k \in 1..n |-> <<ids[k]>>]]
    /\ HistUnchanged

\* GetRecentThreadIdsByUserName, query.sql lines 46-51: the ids of the
\* user's rows that are no pseudo messages, ORDER BY timestamp DESC LIMIT
\* limit (as a set).
RecentMessageIds(userName, limit) ==
    LET all == [m \in 1..Len(hist.messages) |-> m]
        mine == SelectSeq(all, LAMBDA m :
                    /\ hist.messages[m].user_name = userName
                    /\ hist.messages[m].message_type # "pseudo_message")
    IN {mine[k] : k \in (IF Len(mine) > limit THEN Len(mine) - limit + 1 ELSE 1)..Len(mine)}

\* query.sql lines 43-45: the thread_id column of the rel rows whose message
\* is one of ids, one entry per row.
RECURSIVE ThreadIdColumn(_, _)
ThreadIdColumn(t, ids) ==
    IF t = 0 THEN <<>>
    ELSE ThreadIdColumn(t - 1, ids)
         \o [k \in 1..Len(SelectSeq(hist.threads[t], LAMBDA m : m \in ids)) |-> t]

\* Mutant: SELECT thread_id, without DISTINCT.
Distinct_All(column) == column

\* SELECT DISTINCT: every value of the column once (here: in ascending
\* order).
Distinct(column) ==
    LET values == {column[k] : k \in 1..Len(column)}
    IN [n \in 1..Cardinality(values) |->
           CHOOSE x \in values : Cardinality({y \in values : y < x}) = n - 1]

\* GetRecentThreadIdsByUserName, query.sql lines 42-52.
RecentThreadIds(userName, limit) ==
    Distinct(ThreadIdColumn(Len(hist.threads), RecentMessageIds(userName, limit)))

\* GetChatgptMessagesByThreadId, query.sql lines 17-25, over hist.
ThreadMessagesOf(t) ==
    SelectSeq(hist.threads[t], LAMBDA m : hist.messages[m].message_type # "pseudo_message")

\* BuildThreadHistory, lines 342-346: the query for the thread ids.
CallBuildThreadHistory ==
    /\ hist.pc = "idle"
    /\ \E acct \in Accounts :
        hist' = [hist EXCEPT !.pc = "cut", !.acct = acct,
                             !.threadIds = RecentThreadIds(acct, RecentMessages)]
    /\ HistUnchanged

\* BuildThreadHistory, lines 348-372: cut to ten thread ids and read each
\* thread.  The query has no ORDER BY, so its rows come in any order and
\* threadIds[:10] keeps any ten of them (kept).
ReadThreads ==
    /\ hist.pc = "cut"
    /\ LET found == {hist.threadIds[k] : k \in 1..Len(hist.threadIds)}
           n == IF Len(hist.threadIds) > RecentThreads
                THEN RecentThreads ELSE Cardinality(found)
       IN \E kept \in {K \in SUBSET found : Cardinality(K) = n} :
           LET cut == SelectSeq(hist.threadIds, LAMBDA t : t \in kept)
           IN hist' = [hist EXCEPT
                  !.pc = "done",
                  !.err = FALSE,
                  !.result = [k \in 1..Len(cut) |->
                                 [thread_id |-> cut[k],
                                  messages |-> ThreadMessagesOf(cut[k])]]]
    /\ HistUnchanged

NextHistory ==
    \/ SaveMessages
    \/ CallBuildThreadHistory
    \/ ReadThreads

SpecHistory == Init /\ [][NextHistory]_vars

\* ================================================ WithRetry / withRetry
\* WithRetry (Go, history.go lines 121-152) and withRetry (TypeScript,
\* part_014 lines 47-70): one call.  events lists the calls of fn and the
\* waits in the order they happen; the error of the i-th call is i.
MaxGiven == 6          \* largest MaxAttempts a caller passes
DefaultAttempts == 3
Given == (-1)..MaxGiven

RetryUnchanged ==
    UNCHANGED <<frontend, ctxDone, chat, appenders, split, metrics, server, tools, failed,
                hist>>

\* history.go lines 125-127: a MaxAttempts of 0 (the zero value) becomes 3.
\* part_014 lines 48-52: the caller's maxAttempts replaces the default 3
\* whatever it is (a config without one is a given of 3).
EffectiveAttempts(impl, given) ==
    IF impl = "go"
    THEN IF given = 0 THEN DefaultAttempts ELSE given
    ELSE given

WithRetryCall ==
    /\ retry.pc = "idle"
    /\ \E impl \in {"go", "ts"} : \E given \in Given :
        retry' = [retry EXCEPT !.impl = impl, !.pc = "loop", !.given = given,
                               !.maxAttempts = EffectiveAttempts(impl, given),
                               !.i = 1]
    /\ RetryUnchanged

\* history.go lines 136-148, part_014 lines 57-68: one turn of the loop: fn
\* is called; its result is returned, or its error is kept and, unless this
\* was the last attempt, the backoff comes next.  After its last attempt
\* the TypeScript loop throws from inside the catch.
RetryAttempt ==
    /\ retry.pc = "loop"
    /\ retry.i <= retry.maxAttempts
    /\ \E ok \in BOOLEAN :
        retry' =
            IF ok
            THEN [retry EXCEPT !.events = Append(@, "ok"), !.pc = "done",
                               !.result = "value"]
            ELSE IF retry.i < retry.maxAttempts
            THEN [retry EXCEPT !.events = Append(@, "error"), !.lastErr = retry.i,
                               !.pc = "sleep"]
            ELSE IF retry.impl = "ts"
            THEN [retry EXCEPT !.events = Append(@, "error"), !.lastErr = retry.i,
                               !.pc = "done", !.result = "Retry exhausted",
                               !.wrapped = retry.i]
            ELSE [retry EXCEPT !.events = Append(@, "error"), !.lastErr = retry.i,
                               !.i = @ + 1]
    /\ RetryUnchanged

\* history.go lines 145-147, part_014 lines 64-66: the 10-second backoff.
RetryBackoff ==
    /\ retry.pc = "sleep"
    /\ retry' = [retry EXCEPT !.events = Append(@, "wait"), !.i = @ + 1, !.pc = "loop"]
    /\ RetryUnchanged

\* The loop is left: history.go line 151 wraps lastErr (nil when fn was
\* never called); part_014 line 70 throws "Bug: unreachable code".
RetryExhausted ==
    /\ retry.pc = "loop"
    /\ retry.i > retry.maxAttempts
    /\ retry' = IF retry.impl = "go"
                THEN [retry EXCEPT !.pc = "done", !.result = "Retry exhausted",
                                   !.wrapped = retry.lastErr]
                ELSE [retry EXCEPT !.pc = "done", !.result = "Bug: unreachable code"]
    /\ RetryUnchanged

NextRetry ==
    \/ WithRetryCall
    \/ RetryAttempt
    \/ RetryBackoff
    \/ RetryExhausted

SpecRetry == Init /\ [][NextRetry]_vars

\* ================================================================ claims
\* What the claims speak of.
Range(seq) == {seq[k] : k \in 1..Len(seq)}
NetworkPostId(m) == chatgpt_messages[m].mastodon_status_id
RelsOf(t) == {r \in chatgpt_threads_rel : r.thread_id = t}
LastMessage(t) ==
    IF RelsOf(t) = {} THEN Nil ELSE ThreadRels(t)[Len(ThreadRels(t))].chatgpt_message_id
ThreadsEndingIn(x) ==
    {t \in chatgpt_threads : LastMessage(t) # Nil /\ NetworkPostId(LastMessage(t)) = x}
ThreadsContaining(m) == {t \in chatgpt_threads : m \in Range(ThreadMessages(t))}
PrefixUpTo(seq, m) == SubSeq(seq, 1, CHOOSE k \in 1..Len(seq) : seq[k] = m)
SequenceNumIn(t, m) ==
    (CHOOSE r \in RelsOf(t) : r.chatgpt_message_id = m).sequence_num

\* A step in which GetOrCreateCurrentThreadId runs, and one in which none
\* of the calls it makes fails.
ResolveStep == pc = "resolve" /\ last' = "GetOrCreateCurrentThreadId"
ResolveStepNoFailure == ResolveStep /\ faults' = faults
Parent == statuses[Status].in_reply_to_id

\* C1: for a thread T whose highest-sequence_num message has network_post_id
\* X, GetOrCreateCurrentThreadId on a post with in_reply_to_id = X returns
\* T's id and creates no thread, no message and no rel row.
C1_UnforkedReplyReturnsThread ==
    [][(ResolveStep /\ ~err' /\ Parent # Nil) =>
        \A T \in ThreadsEndingIn(Parent) :
            /\ threadId' = T
            /\ chatgpt_threads' = chatgpt_threads
            /\ chatgpt_messages' = chatgpt_messages
            /\ chatgpt_threads_rel' = chatgpt_threads_rel]_vars

\* C2: when the parent of a post maps to a stored message mi that is the
\* last message of no thread containing it, GetOrCreateCurrentThreadId (no
\* call of which fails) returns the id of a thread that did not exist
\* before, different from every thread T = [m1..mk] containing mi, whose
\* members are exactly m1..mi.
C2_ForkReturnsNewPrefixThread ==
    [][(ResolveStepNoFailure /\ how' = "clone") =>
        /\ ~err'
        /\ threadId' \notin chatgpt_threads
        /\ threadId' \in chatgpt_threads'
        /\ ThreadsContaining(mes') # {}
        /\ \A T \in ThreadsContaining(mes') :
            /\ threadId' # T
            /\ LastMessage(T) # mes'
            /\ ThreadMessages(threadId)' = PrefixUpTo(ThreadMessages(T), mes')]_vars

C2_Witness ==
    /\ pc = "chat" /\ how = "clone" /\ ~err /\ faults = 0
    /\ Len(ThreadMessages(threadId)) >= 2
    /\ \E T \in chatgpt_threads \ {threadId} :
        /\ mes \in Range(ThreadMessages(T))
        /\ Len(ThreadMessages(T)) > Len(ThreadMessages(threadId))

\* C3: cloneThread (no call of which fails) gives the new thread one rel row
\* for every source message up to and including the cutoff, each with the
\* sequence_num it has in the source, and leaves the rel rows of the source
\* thread and of every other thread, and the messages, unchanged.
C3_CloneCopiesRowsAndKeepsOthers ==
    [][(ResolveStepNoFailure /\ how' = "clone") =>
        /\ \E T \in ThreadsContaining(mes') :
            {[chatgpt_message_id |-> r.chatgpt_message_id, sequence_num |-> r.sequence_num] :
                r \in {q \in chatgpt_threads_rel' : q.thread_id = threadId'}}
            = {[chatgpt_message_id |-> r.chatgpt_message_id, sequence_num |-> r.sequence_num] :
                r \in {q \in RelsOf(T) : q.sequence_num <= SequenceNumIn(T, mes')}}
        /\ {q \in chatgpt_threads_rel' : q.thread_id # threadId'} = chatgpt_threads_rel
        /\ chatgpt_messages' = chatgpt_messages]_vars

C3_Witness ==
    /\ pc = "chat" /\ how = "clone" /\ ~err /\ faults = 0
    /\ \E T \in chatgpt_threads \ {threadId} :
        /\ \E r \in RelsOf(T) : r.sequence_num > Cardinality(RelsOf(threadId))
        /\ \A r \in RelsOf(threadId) :
            [r EXCEPT !.thread_id = T] \in chatgpt_threads_rel
    /\ \E r \in RelsOf(threadId) : r.sequence_num = 2

\* The statuses of the messages of the thread a resolver step returns, in
\* sequence_num order, read from the store the step leaves.
ReturnedThreadStatuses ==
    LET rows == OrderBySequenceNum({q \in chatgpt_threads_rel' : q.thread_id = threadId'})
    IN [k \in 1..Len(rows) |->
           chatgpt_messages'[rows[k].chatgpt_message_id].mastodon_status_id]

\* seq is the reply chain above status p: it starts at a root, each status
\* is the parent of the next and the last is the parent of p.
IsAncestorChain(seq, p) ==
    /\ Len(seq) >= 1
    /\ statuses[seq[1]].in_reply_to_id = Nil
    /\ \A k \in 1..(Len(seq) - 1) : statuses[seq[k + 1]].in_reply_to_id = seq[k]
    /\ statuses[p].in_reply_to_id = seq[Len(seq)]

\* C4: when the parent of post P is not in the message store,
\* GetOrCreateCurrentThreadId (no call of which fails) returns, without an
\* error, the id of a new thread whose members are P's ancestors, root
\* first, at sequence_num 1..n, and no message or rel row it stores refers
\* to P.
C4_ReconcileBuildsAncestorsOnly ==
    [][(ResolveStepNoFailure /\ Parent # Nil
            /\ FindChatgptMessageByMastodonStatusId(Parent) = {}) =>
        /\ ~err'
        /\ how' = "reconcile"
        /\ threadId' \notin chatgpt_threads
        /\ threadId' \in chatgpt_threads'
        /\ IsAncestorChain(ReturnedThreadStatuses, Status)
        /\ {r.sequence_num : r \in {q \in chatgpt_threads_rel' : q.thread_id = threadId'}}
           = 1..Cardinality({q \in chatgpt_threads_rel' : q.thread_id = threadId'})
        /\ \A m \in (Len(chatgpt_messages) + 1)..Len(chatgpt_messages') :
            chatgpt_messages'[m].mastodon_status_id # Status
        /\ \A r \in chatgpt_threads_rel' \ chatgpt_threads_rel :
            chatgpt_messages'[r.chatgpt_message_id].mastodon_status_id # Status]_vars

C4_Witness ==
    /\ pc = "chat" /\ how = "reconcile" /\ ~err /\ faults = 0
    /\ Len(Ancestors(Status)) >= 2
    /\ Len(ThreadMessages(threadId)) = Len(Ancestors(Status))
    /\ \A k \in 1..Len(Ancestors(Status)) :
        NetworkPostId(ThreadMessages(threadId)[k]) = Ancestors(Status)[k]

\* C5: under the single sequential worker the sequence_num values of every
\* thread are pairwise distinct and are exactly 1..n, n the number of its
\* rel rows.
C5_SequenceNumsDense ==
    \A t \in chatgpt_threads \cup {r.thread_id : r \in chatgpt_threads_rel} :
        {r.sequence_num : r \in RelsOf(t)} = 1..Cardinality(RelsOf(t))

C5_Witness ==
    /\ pc = "advance" /\ how = "clone"
    /\ Cardinality(RelsOf(threadId)) >= 3
    /\ \E t \in chatgpt_threads \ {threadId} : Cardinality(RelsOf(t)) >= 2
    /\ \E m \in MessageIds : chatgpt_messages[m].message_type = "pseudo_message"

\* C6: no two threads end in messages with the same network_post_id, and
\* once GetOrCreateCurrentThreadId has returned for a reply to a stored post
\* X, exactly one thread ends in a message with network_post_id X and it is
\* the thread returned.
C6_OneCurrentThreadPerPost ==
    /\ \A t1, t2 \in chatgpt_threads :
        (/\ LastMessage(t1) # Nil
         /\ LastMessage(t2) # Nil
         /\ NetworkPostId(LastMessage(t1)) = NetworkPostId(LastMessage(t2))) => t1 = t2
    /\ (pc = "chat" /\ how \in {"current", "clone", "orphan"}) =>
        ThreadsEndingIn(Parent) = {threadId}

\* The sequence numbers RestoreThread returns for a thread, in its order.
RestoredSequenceNums(t) ==
    [k \in 1..Len(RestoreThread(t)) |-> RestoreThread(t)[k].sequence_num]
RestoredMessages(t) ==
    [k \in 1..Len(RestoreThread(t)) |-> RestoreThread(t)[k].chatgpt_message_id]
PseudoSequenceNums(t) ==
    {r.sequence_num : r \in {q \in RelsOf(t) :
        chatgpt_messages[q.chatgpt_message_id].message_type = "pseudo_message"}}

\* C7 as claimed: for any thread id, RestoreThread returns the thread's
\* messages in strictly increasing sequence_num order, with no gap in the
\* sequence numbers of the returned messages and no message returned twice.
C7_RestoreLinearNoGap ==
    \A t \in chatgpt_threads :
        LET nums == RestoredSequenceNums(t)
        IN /\ \A k \in 1..(Len(nums) - 1) : nums[k + 1] = nums[k] + 1
           /\ \A j, k \in 1..Len(nums) :
                j # k => RestoredMessages(t)[j] # RestoredMessages(t)[k]

\* C7 as amended: for any thread id, RestoreThread returns the thread's
\* messages other than its pseudo messages in strictly increasing
\* sequence_num order and no message twice; the only sequence numbers
\* missing between those returned are those of the pseudo messages.
C7_RestoreLinearPseudoGaps ==
    \A t \in chatgpt_threads :
        LET nums == RestoredSequenceNums(t)
        IN /\ \A k \in 1..(Len(nums) - 1) : nums[k] < nums[k + 1]
           /\ \A j, k \in 1..Len(nums) :
                j # k => RestoredMessages(t)[j] # RestoredMessages(t)[k]
           /\ Range(nums) \cup PseudoSequenceNums(t) = 1..Cardinality(RelsOf(t))
           /\ Range(nums) \cap PseudoSequenceNums(t) = {}

C7_Witness ==
    \E t \in chatgpt_threads :
        /\ Len(RestoreThread(t)) >= 3
        /\ \E k \in 1..(Len(RestoreThread(t)) - 1) :
            RestoredSequenceNums(t)[k + 1] = RestoredSequenceNums(t)[k] + 2

\* A step in which ReconcileThread stores a message for a status that a
\* stored message already refers to.
ReconcileStoresAgain ==
    /\ ResolveStep
    /\ how' = "reconcile"
    /\ \E m \in (Len(chatgpt_messages) + 1)..Len(chatgpt_messages') :
        FindChatgptMessageByMastodonStatusId(chatgpt_messages'[m].mastodon_status_id) # {}

\* C8: ReconcileThread creates a message only for ancestors that are not
\* already stored, so at most one stored message has a given
\* network_post_id.
C8_OneMessagePerNetworkPost ==
    /\ [](\A m1, m2 \in MessageIds :
            NetworkPostId(m1) = NetworkPostId(m2) => m1 = m2)
    /\ [][~ReconcileStoresAgain]_vars

\* A step in which SaveMessageInThread runs, and the maximum it reads.
SaveStep == pc \in {"saveUser", "saveReply"} /\ last' = "SaveMessageInThread"
PreviousMax ==
    IF RelsOf(threadId) = {} THEN 0
    ELSE CHOOSE n \in {r.sequence_num : r \in RelsOf(threadId)} :
            \A r \in RelsOf(threadId) : r.sequence_num <= n

\* C9: SaveMessageInThread is atomic: when it returns an error neither the
\* new message nor a rel row for it is in the store; when it succeeds both
\* are, the row at the thread's previous maximum plus 1.
C9_SaveMessageAtomic ==
    [][SaveStep =>
        IF err'
        THEN chatgpt_messages' = chatgpt_messages /\ chatgpt_threads_rel' = chatgpt_threads_rel
        ELSE /\ Len(chatgpt_messages') = Len(chatgpt_messages) + 1
             /\ SubSeq(chatgpt_messages', 1, Len(chatgpt_messages)) = chatgpt_messages
             /\ chatgpt_threads_rel' = chatgpt_threads_rel \cup
                    {[thread_id |-> threadId,
                      chatgpt_message_id |-> Len(chatgpt_messages) + 1,
                      sequence_num |-> PreviousMax + 1]}]_vars

\* C10: if a rel insertion fails during cloneThread, the call returns an
\* error and the store is as it was before the call: no rel row of the new
\* thread and no new thread remains.
C10_FailedCloneLeavesNothing ==
    [][(ResolveStep /\ how' = "clone" /\ faults' # faults) =>
        /\ err'
        /\ chatgpt_threads' = chatgpt_threads
        /\ chatgpt_threads_rel' = chatgpt_threads_rel
        /\ chatgpt_messages' = chatgpt_messages]_vars

\* a is an initial part of b.
IsPrefix(a, b) == Len(a) <= Len(b) /\ SubSeq(b, 1, Len(a)) = a

\* C11: no operation modifies or removes a message or a rel row: in every
\* step the stored messages and rel rows stay as they are, and each thread's
\* message sequence before the step is a prefix of its sequence after it.
C11_AppendOnly ==
    [][/\ IsPrefix(chatgpt_messages, chatgpt_messages')
       /\ chatgpt_threads_rel \subseteq chatgpt_threads_rel'
       /\ chatgpt_threads \subseteq chatgpt_threads'
       /\ \A t \in chatgpt_threads :
            IsPrefix(ThreadMessages(t), ThreadMessages(t)')]_vars

C11_Witness ==
    /\ pc = "advance"
    /\ Len(ThreadMessages(threadId)) >= 4
    /\ \E t \in chatgpt_threads \ {threadId} :
        /\ Len(ThreadMessages(t)) >= 2
        /\ Range(ThreadMessages(t)) \cap Range(ThreadMessages(threadId)) # {}

\* The message rows of the resolved thread, in sequence_num order.
ResolvedThreadRows ==
    [k \in 1..Len(ThreadMessages(threadId)) |->
        chatgpt_messages[ThreadMessages(threadId)[k]]]

\* C12: in ReplyAndPost, when the first PostStatus call is about to be made,
\* both the user's message and the model's reply message are stored in the
\* resolved thread, the reply right after the user's message.
C12_BothTurnsStoredBeforePost ==
    (pc = "post" /\ i = 0) =>
        \E k \in 1..(Len(ResolvedThreadRows) - 1) :
            /\ k + 1 = Len(ResolvedThreadRows)
            /\ ResolvedThreadRows[k].message_type = "user_status"
            /\ ResolvedThreadRows[k].mastodon_status_id = Status
            /\ ResolvedThreadRows[k + 1].message_type = "ai_response"

\* A step in which PostStatus posts chunk i, and one in which
\* SaveMessageInThread saves that chunk with no failing call.
PostChunkStep == pc = "post" /\ Len(statuses') = Len(statuses) + 1
SaveChunkStep == pc = "saveReply" /\ last' = "SaveMessageInThread" /\ faults' = faults

\* C13: for a reply split into chunks c1..cn, c1 is posted in reply to the
\* triggering post and each later chunk in reply to the post made for the
\* chunk before it; the thread receives an ai_response message carrying
\* c1's post id and then one pseudo_message per later chunk carrying that
\* chunk's post id, in chunk order (for saves in which no call fails).
C13_ChunksChainedAndStored ==
    [][/\ PostChunkStep =>
            /\ statuses'[Len(statuses')].account = MyAccountID
            /\ statuses'[Len(statuses')].in_reply_to_id =
                    IF i = 0 THEN Status ELSE Len(statuses)
            /\ i > 0 => statuses[Len(statuses)].account = MyAccountID
       /\ SaveChunkStep =>
            /\ Len(chatgpt_messages') = Len(chatgpt_messages) + 1
            /\ chatgpt_messages'[Len(chatgpt_messages')].mastodon_status_id = Len(statuses)
            /\ chatgpt_messages'[Len(chatgpt_messages')].message_type =
                    IF i = 0 THEN "ai_response" ELSE "pseudo_message"
            /\ ThreadMessages(threadId)' =
                    Append(ThreadMessages(threadId), Len(chatgpt_messages'))]_vars

C13_Witness ==
    /\ pc = "advance" /\ texts = 2 /\ faults = 0
    /\ LET rows == ResolvedThreadRows
           n == Len(rows)
       IN /\ n >= 3
          /\ rows[n - 2].message_type = "user_status"
          /\ rows[n - 1].message_type = "ai_response"
          /\ rows[n].message_type = "pseudo_message"
          /\ statuses[rows[n - 1].mastodon_status_id].in_reply_to_id = Status
          /\ statuses[rows[n].mastodon_status_id].in_reply_to_id =
                rows[n - 1].mastodon_status_id

\* The network after a root mention A, its one-chunk reply B, a reply C to
\* B and its one-chunk reply D.
TwoTurnStatuses ==
    <<[in_reply_to_id |-> Nil, account |-> "alice", visibility |-> "public"],
      [in_reply_to_id |-> 1, account |-> MyAccountID, visibility |-> "public"],
      [in_reply_to_id |-> 2, account |-> "alice", visibility |-> "public"],
      [in_reply_to_id |-> 3, account |-> MyAccountID, visibility |-> "public"]>>

\* D has just been saved, and no call has failed since the store was empty.
TwoTurnsHandled == pc = "advance" /\ statuses = TwoTurnStatuses /\ faults = 0

\* C14: starting from an empty store, after a root mention A is handled
\* with a one-chunk reply B and then a reply C to B is handled with reply D,
\* exactly one thread holds [user A, assistant B, user C, assistant D] in
\* that order, and handling C created no new thread.
C14_SecondTurnContinuesThread ==
    TwoTurnsHandled =>
        /\ Cardinality(chatgpt_threads) = 1
        /\ threadId \in chatgpt_threads
        /\ Len(ResolvedThreadRows) = 4
        /\ \A k \in 1..4 :
            /\ ResolvedThreadRows[k].mastodon_status_id = k
            /\ ResolvedThreadRows[k].role = IF k \in {1, 3} THEN "user" ELSE "assistant"
        /\ how = "current"

C14_Witness ==
    /\ TwoTurnsHandled
    /\ Len(chatgpt_messages) = 4
    /\ Cardinality(chatgpt_threads_rel) = 4

\* The ids of the notifications on the network.  A batch holds every
\* notification whose id is above the cursor it was fetched with, so the
\* greatest of that cursor and the batch's ids is the greatest id there is.
NotificationIds == {notifications[n].id : n \in 1..Len(notifications)}

\* Run has saved the state for the last notification of its batch, and no
\* call has failed.
BatchHandled ==
    pc = "loop" /\ replies = <<>> /\ reply # Nil /\ last = "SaveState" /\ faults = 0

\* C15: after Run processes a batch in which every notification is handled
\* successfully, the persisted cursor equals the numerically greatest of
\* the previous cursor and the batch's notification ids.
C15_CursorIsNumericMax ==
    BatchHandled => stateFile = Max(NotificationIds)

\* C16: across any sequence of Run cycles and batches, the persisted
\* last_notification_id never decreases when ids are compared as numbers.
C16_PersistedCursorNeverDecreases ==
    [][stateFile' >= stateFile]_vars

\* The worker is handling notification reply; a step that ends the handling,
\* with ReplyAndPost's error caught or with the state saved.
Handling == pc \in {"resolve", "chat", "saveUser", "post", "saveReply", "advance"}
HandledStep == Handling /\ pc' = "loop"

\* C17: after each notification of a batch has been handled, whether
\* ReplyAndPost succeeded or failed with an error caught for it, the cursor
\* is advanced to that notification's id if it is greater and is persisted
\* before the next notification is started.
C17_CursorAdvancedAfterEachNotification ==
    [][HandledStep =>
        /\ LastNotificationID' = Max({LastNotificationID, notifications[reply].id})
        /\ stateFile' = LastNotificationID']_vars

\* The notifications of the batch that are not yet attempted or whose
\* handling is not completed.
Unfinished == Range(replies) \cup (IF Handling THEN {reply} ELSE {})
CrashStep == pc # "idle" /\ last' = "Crash" /\ faults' = faults + 1

\* C18: if the process crashes while a batch is being processed, every
\* notification of the batch that was not yet attempted or whose handling
\* was not completed has an id greater than the persisted cursor, so the
\* first fetch after the restart returns it again.
C18_CrashLeavesUnfinishedAboveCursor ==
    [][CrashStep =>
        /\ \A n \in Unfinished : notifications[n].id > stateFile
        /\ \A n \in Unfinished :
            n \in Range(NewestFirst(LastNotificationID', Len(notifications)))]_vars

\* A step in which ReplyAndPost returns an error, and one in which Run does.
ReplyAndPostFails ==
    pc \in {"resolve", "chat", "saveUser", "post", "saveReply"} /\ err'
RunFails == (pc = "idle" /\ last' = "GetAllNotifications" /\ err') \/ (pc = "advance" /\ err')

\* C19: when handling one notification fails at any step, Run goes on to
\* the head of its loop with every later notification of the batch still to
\* be handled, and when Run itself returns an error RunServer is left at
\* the start of the next polling cycle.
C19_FailureIsolated ==
    [][/\ ReplyAndPostFails => (pc' = "loop" /\ replies' = replies)
       /\ RunFails => pc' = "idle"]_vars

C19_Witness ==
    /\ pc = "advance" /\ faults = 1 /\ stateFile = Nil
    /\ Len(notifications) = 2 /\ reply = 1
    /\ \A m \in MessageIds : NetworkPostId(m) # notifications[2].status
    /\ \E m \in MessageIds : NetworkPostId(m) = notifications[1].status

\* C20: if the LLM call, the splitting, the persistence or the posting fails
\* for a notification, a fixed error reply is posted in reply to the
\* triggering post and the notification is abandoned.
C20_ErrorReplyPosted ==
    [][(pc \in {"chat", "saveUser", "post", "saveReply"} /\ err') =>
        /\ Len(statuses') = Len(statuses) + 1
        /\ statuses'[Len(statuses')] =
                [in_reply_to_id |-> Status, account |-> MyAccountID,
                 visibility |-> statuses[Status].visibility]
        /\ pc' = "loop"]_vars

\* ---------------------------------------------------------------- C21
\* C21: TeobotService.Chat runs at most 10 tool rounds (so it terminates),
\* and a call that returns a response returns one without pending tool
\* calls: when the model still requests tools after the last round, the
\* call ends in an error.  Go's Chat returns the last response as it is.
C21_ReturnedMessageHasNoPendingToolCalls ==
    /\ chat.i <= MaxToolRounds
    /\ chat.outcome = "response" => ~chat.toolCalls

\* ---------------------------------------------------------------- C22
\* C22: the retry wrapper runs chat again only after a network error of the
\* model call; a chat call that failed because the model still requested
\* tools after the iteration bound is not invoked again.  withRetry runs
\* it again whatever was thrown.
C22_OnlyNetworkErrorsRetried ==
    [][(chat.pc = "thrown" /\ chat'.pc = "call") => chat.cause = "network"]_vars

\* ---------------------------------------------------------------- C23
\* C23: two SaveMessageInThread calls on one thread that interleave, each
\* reading the maximum and inserting in its own transaction, insert rel rows
\* with different sequence_num values: no two rel rows of a thread that
\* belong to different messages share a sequence_num.
C23_ConcurrentAppendsGetDifferentSequenceNums ==
    \A r \in chatgpt_threads_rel : \A q \in chatgpt_threads_rel :
        (r.thread_id = q.thread_id /\ r.chatgpt_message_id # q.chatgpt_message_id)
            => r.sequence_num # q.sequence_num

\* ---------------------------------------------------------------- C24
\* The turns of the notification being handled that are in the store.
UserTurnStored ==
    \E m \in MessageIds :
        /\ chatgpt_messages[m].message_type = "user_status"
        /\ chatgpt_messages[m].mastodon_status_id = Status
ReplyTurnStored ==
    \E m \in MessageIds :
        /\ chatgpt_messages[m].message_type = "ai_response"
        /\ statuses[chatgpt_messages[m].mastodon_status_id].in_reply_to_id = Status

\* C24: cancellation is observed between notifications only and aborts no
\* store transaction of a handling that has begun: when no call fails for
\* another reason, the handling of a notification ends with both of its
\* turns in the store or with none, whenever the context is cancelled.
C24_CancelLeavesNoPartialTurns ==
    [][(Handling /\ faults' = 0 /\ pc' = "loop") =>
        (UserTurnStored' <=> ReplyTurnStored')]_vars

\* ---------------------------------------------------------------- C25
\* The threads that hold a private message.
PrivateThreads ==
    {t \in chatgpt_threads :
        \E r \in RelsOf(t) :
            /\ r.chatgpt_message_id \in MessageIds
            /\ chatgpt_messages[r.chatgpt_message_id].privacy_level = "private"}

\* C25: no message of a thread that holds a private (direct or
\* followers-only) message is among the thread summaries ReplyTo builds;
\* checked where it matters most, for the reply to a public status, in runs
\* without a failing call.
C25_NoPrivateThreadInThreadHistory ==
    (pc = "resolve" /\ faults = 0 /\ getPrivacyLevel(Status) = "public") =>
        BuildThreadHistory(statuses[Status].account) \cap PrivateThreads = {}

\* ---------------------------------------------------------------- C26
\* C26: for every text and maxPartLen, the parts SplitText returns, joined
\* with one newline between consecutive parts, are the text again, empty
\* lines included.
C26_JoinedPartsAreTheText ==
    split.pc = "done" => Join(split.parts) = split.t

\* ---------------------------------------------------------------- C27
\* The lines of the text that was split.
Lines == Range(Split(split.t))

\* C27: every part has at most maxPartLen runes, except a part that is one
\* line of the text which is itself longer than maxPartLen.
C27_PartsWithinLimit ==
    split.pc = "done" =>
        \A k \in 1..Len(split.parts) :
            \/ Len(split.parts[k]) <= split.maxPartLen
            \/ split.parts[k] \in Lines

\* A call that returned a part of two lines and a part that is one line
\* longer than the limit.
C27_Witness ==
    /\ split.pc = "done"
    /\ \E k \in 1..Len(split.parts) :
        /\ Len(split.parts[k]) = split.maxPartLen
        /\ Newline \in Range(split.parts[k])
    /\ \E k \in 1..Len(split.parts) :
        /\ Len(split.parts[k]) > split.maxPartLen
        /\ split.parts[k] \in Lines

\* ---------------------------------------------------------------- C28
\* The lines of all parts, in order.
RECURSIVE PartLines(_)
PartLines(parts) ==
    IF parts = <<>> THEN <<>> ELSE Split(Head(parts)) \o PartLines(Tail(parts))

\* a can be had from b by leaving elements of b out.
RECURSIVE IsSubsequence(_, _)
IsSubsequence(a, b) ==
    IF a = <<>> THEN TRUE
    ELSE IF b = <<>> THEN FALSE
    ELSE IF Head(a) = Head(b) THEN IsSubsequence(Tail(a), Tail(b))
    ELSE IsSubsequence(a, Tail(b))

\* C28: SplitText packs greedily and keeps the lines: for consecutive parts
\* p and q, length(p) + 1 + length(first line of q) > maxPartLen, and the
\* lines of the text are all there, whole and in their order, in the parts.
C28_GreedyAndLinesKept ==
    split.pc = "done" =>
        /\ \A k \in 1..(Len(split.parts) - 1) :
            Len(split.parts[k]) + 1 + Len(Head(Split(split.parts[k + 1])))
                > split.maxPartLen
        /\ IsSubsequence(Split(split.t), PartLines(split.parts))

\* ---------------------------------------------------------------- C29
\* C29: for a post with empty in_reply_to_id, when no call fails,
\* GetOrCreateCurrentThreadId creates exactly one thread, which has no rel
\* rows, returns its id, and changes no other thread, no message and no rel
\* row.
C29_RootPostGetsNewEmptyThread ==
    [][(ResolveStepNoFailure /\ Parent = Nil) =>
        /\ threadId' \notin chatgpt_threads
        /\ chatgpt_threads' = chatgpt_threads \cup {threadId'}
        /\ \A r \in chatgpt_threads_rel' : r.thread_id # threadId'
        /\ chatgpt_messages' = chatgpt_messages
        /\ chatgpt_threads_rel' = chatgpt_threads_rel
        /\ ~err']_vars

\* A root post has been given a new thread in a store that already held a
\* thread with messages.
C29_Witness ==
    /\ pc = "chat"
    /\ how = "new"
    /\ statuses[Status].in_reply_to_id = Nil
    /\ threadId \in chatgpt_threads
    /\ RelsOf(threadId) = {}
    /\ \E t \in chatgpt_threads : t # threadId /\ RelsOf(t) # {}

\* ---------------------------------------------------------------- C30
\* What the providers other than p have recorded.
OthersUnchanged(p) ==
    \A q \in Providers \ {p} :
        /\ metrics'.noticed[q] = metrics.noticed[q]
        /\ metrics'.txnsStarted[q] = metrics.txnsStarted[q]
        /\ metrics'.txnsEnded[q] = metrics.txnsEnded[q]
        /\ metrics'.externalsStarted[q] = metrics.externalsStarted[q]
        /\ metrics'.externalsEnded[q] = metrics.externalsEnded[q]

\* C30: with a provider attached to the context by WithProvider,
\* NoticeError, StartTxn and StartExternalSegment go to that provider and
\* not to the global one; NoticeError with a nil error records nothing; and
\* End on the Txn StartTxn returned calls the provider's end function once.
C30_ContextProviderFirst ==
    [][/\ (metrics.ctx \in Recording /\ metrics'.op = "NoticeError"
                /\ metrics'.arg # "nil") =>
            /\ metrics'.noticed[metrics.ctx] = metrics.noticed[metrics.ctx] + 1
            /\ OthersUnchanged(metrics.ctx)
       /\ (metrics.ctx \in Recording /\ metrics'.op = "StartTxn") =>
            /\ metrics'.txnsStarted[metrics.ctx] = metrics.txnsStarted[metrics.ctx] + 1
            /\ metrics'.txn = metrics.ctx
            /\ OthersUnchanged(metrics.ctx)
       /\ (metrics.ctx \in Recording /\ metrics'.op = "StartExternalSegment") =>
            /\ metrics'.externalsStarted[metrics.ctx] =
                    metrics.externalsStarted[metrics.ctx] + 1
            /\ OthersUnchanged(metrics.ctx)
       /\ (metrics'.op = "NoticeError" /\ metrics'.arg = "nil") =>
            metrics'.noticed = metrics.noticed
       /\ (metrics.txn \in Recording /\ metrics'.op = "End") =>
            /\ metrics'.txnsEnded[metrics.txn] = metrics.txnsEnded[metrics.txn] + 1
            /\ OthersUnchanged(metrics.txn)]_vars

\* The context's provider has recorded an error while another recording
\* provider was the global one and recorded nothing.
C30_Witness ==
    /\ metrics.op = "NoticeError"
    /\ metrics.arg = "boom"
    /\ metrics.ctx \in Recording
    /\ metrics.globalProv \in Recording \ {metrics.ctx}
    /\ metrics.noticed[metrics.ctx] = 1
    /\ metrics.noticed[metrics.globalProv] = 0

\* ---------------------------------------------------------------- C31
\* The model's bound on the statuses of the network stops the post in flight
\* (no room for the chunk, no fault left for a failing call).
PostBlocked == pc = "post" /\ Len(statuses) = MaxPosts /\ faults = MaxFaults

\* A polling cycle begins: Run fetches the notifications, and the fetch
\* returns the batch or fails.
CycleStarts == pc = "idle" /\ (pc' = "loop" \/ faults' # faults)

\* C31: after the cancellation signal RunServer starts no new polling cycle,
\* and it eventually returns the context's error, wherever in the delay or
\* in a running cycle the signal arrived.
C31_CancelStopsServer ==
    /\ [][ctxDone => ~CycleStarts]_vars
    /\ [][server'.returned => server'.ret = "context canceled" /\ ctxDone]_vars
    /\ (ctxDone /\ ~PostBlocked) ~> server.returned

\* The signal arrived while a cycle was running (the reply was posted and,
\* with no failing call, only the cancelled context kept it out of the
\* store), and RunServer has returned.
C31_Witness ==
    /\ server.returned
    /\ faults = 0
    /\ \E s \in 1..Len(statuses) :
        /\ statuses[s].account = MyAccountID
        /\ \A m \in MessageIds : chatgpt_messages[m].mastodon_status_id # s

\* ---------------------------------------------------------------- C32
\* The turns with tool calls whose results were gathered: the model has
\* been invoked again after them, or is about to be.
TurnsGathered ==
    {p \in 1..Len(tools.history) :
        /\ tools.history[p].role = "assistant"
        /\ tools.history[p].tool_calls # <<>>
        /\ \/ tools.pc = "invoke"
           \/ \E q \in (p + 1)..Len(tools.history) : tools.history[q].role = "assistant"}

\* C32: when the model is invoked again after a turn with tool calls
\* t1..tk, the history holds right after that turn exactly one tool message
\* per call, in the order t1..tk, each with its own call's tool_call_id,
\* and nothing else before the model's next message, whatever order the
\* calls completed in.
C32_ToolMessagesInCallOrder ==
    \A p \in TurnsGathered :
        LET c == tools.history[p].tool_calls
            k == Len(c)
        IN /\ p + k <= Len(tools.history)
           /\ \A n \in 1..k :
               /\ tools.history[p + n].role = "tool"
               /\ tools.history[p + n].tool_call_id = c[n].id
           /\ p + k < Len(tools.history) => tools.history[p + k + 1].role = "assistant"

\* Two concurrently dispatched calls completed in the reverse order, and
\* the model is invoked again.
C32_Witness ==
    /\ tools.impl = "ts"
    /\ tools.pc = "invoke"
    /\ TurnsGathered # {}
    /\ tools.finished = <<2, 1>>

\* ---------------------------------------------------------------- C33
\* The tool calls of the turns so far that name a tool the dispatcher does
\* not know, as <<position of the turn, position of the call in it>>.
UnknownToolCalls ==
    {pn \in (1..Len(tools.history)) \X (1..MaxToolCalls) :
        /\ tools.history[pn[1]].role = "assistant"
        /\ pn[2] <= Len(tools.history[pn[1]].tool_calls)
        /\ tools.history[pn[1]].tool_calls[pn[2]].name \notin KnownTools}

\* C33: a tool call that names an unknown tool does not fail the chat call;
\* once the calls of its turn are through, its tool message holds an error
\* string and the model is invoked next.
C33_UnknownToolIsRecoverable ==
    /\ tools.pc # "thrown"
    /\ \A pn \in UnknownToolCalls :
        (pn[1] \in TurnsGathered) =>
            /\ tools.history[pn[1] + pn[2]].role = "tool"
            /\ tools.history[pn[1] + pn[2]].content = "error"

\* ---------------------------------------------------------------- C34
\* A resolver step that ran ReconcileThread.
ReconcileStep == ResolveStep /\ how' = "reconcile"

\* The ancestors ReconcileThread could persist: all but the one it skipped.
RemainingAncestors == Without(Ancestors(Status), Skipped(failed'))

\* C34: when persisting an ancestor fails in ReconcileThread (its
\* created_at does not parse, or its insert fails), the call still commits
\* and returns a new thread of the remaining ancestors in their order; when
\* creating the thread row fails, the call returns an error and the store
\* is as before.
C34_ReconcileBestEffort ==
    [][ReconcileStep =>
        /\ (failed' \in {"parse1", "parse2", "parse3", "message"}) =>
            /\ ~err'
            /\ threadId' \in chatgpt_threads' \ chatgpt_threads
            /\ IsSubsequence(ReturnedThreadStatuses, Ancestors(Status))
            /\ Skipped(failed') > 0 => ReturnedThreadStatuses = RemainingAncestors
        /\ failed' = "thread" =>
            /\ err'
            /\ UNCHANGED store]_vars

\* ---------------------------------------------------------------- C35
\* C35: BuildThreadHistory(acct) returns at most 10 threads, no thread
\* twice, each holding one of the account's 100 most recent messages that
\* are no pseudo messages, each as its whole list of messages that are no
\* pseudo messages in sequence_num order; for an account with no stored
\* message it returns the empty list; it returns no error.
C35_ThreadHistoryOfRecentThreads ==
    hist.pc = "done" =>
        /\ Len(hist.result) <= 10
        /\ \A a \in 1..Len(hist.result) : \A b \in 1..Len(hist.result) :
            a # b => hist.result[a].thread_id # hist.result[b].thread_id
        /\ \A k \in 1..Len(hist.result) :
            LET t == hist.result[k].thread_id
                recent == RecentMessageIds(hist.acct, 100)
            IN /\ \E p \in 1..Len(hist.threads[t]) : hist.threads[t][p] \in recent
               /\ hist.result[k].messages =
                    SelectSeq(hist.threads[t], LAMBDA m :
                        hist.messages[m].message_type # "pseudo_message")
        /\ (\A m \in 1..Len(hist.messages) : hist.messages[m].user_name # hist.acct)
               => hist.result = <<>> /\ ~hist.err

\* Ten threads were returned of the eleven that hold recent messages of the
\* account, one of them with more messages than the 100 looked at.
C35_Witness ==
    /\ hist.pc = "done"
    /\ Len(hist.result) = 10
    /\ Len(hist.threadIds) = 11
    /\ \E k \in 1..10 : Len(hist.result[k].messages) > 100

\* ---------------------------------------------------------------- C36
\* The calls of fn among the events of the call, as positions.
FnCalls == {k \in 1..Len(retry.events) : retry.events[k] # "wait"}

\* The number of attempts the claim allows: MaxAttempts, 3 when it is 0.
AttemptsAllowed == IF retry.given = 0 THEN 3 ELSE retry.given

SavedUserMessages ==
    {m \in MessageIds : /\ chatgpt_messages[m].mastodon_status_id = Status
                        /\ chatgpt_messages[m].message_type = "user_status"}

\* C37: when a notification whose user message was saved by a failed
\* handling is handled again, the resolver (no call of which fails) returns
\* the thread that holds that message and creates no thread, and after the
\* user's message is saved the thread holds it exactly once.
C37_RehandlingKeepsThread ==
    [][/\ (ResolveStepNoFailure /\ SavedUserMessages # {}) =>
            /\ chatgpt_threads' = chatgpt_threads
            /\ \E m \in SavedUserMessages : threadId' \in ThreadsContaining(m)
       /\ (pc = "saveUser" /\ SaveStep /\ faults' = faults /\ SavedUserMessages # {}) =>
            Cardinality({r \in chatgpt_threads_rel' :
                /\ r.thread_id = threadId
                /\ chatgpt_messages'[r.chatgpt_message_id].mastodon_status_id = Status}) = 1]_vars

\* ---------------------------------------------------------------- C38
\* C38: cloneThread, ReconcileThread and SaveMessageInThread return an
\* error when their Commit fails; so the thread id a resolver step hands
\* back names a thread of the store with the rows the operation wrote, and
\* a save that returns nil has stored its message and rel row.
C38_CommitFailureReported ==
    [][/\ (ResolveStep /\ failed' = "commit") => err'
       /\ (ResolveStep /\ ~err' /\ how' \in {"clone", "reconcile"}
                       /\ failed' \in {"none", "commit"}) =>
            /\ threadId' \in chatgpt_threads'
            /\ \E r \in chatgpt_threads_rel' : r.thread_id = threadId'
       /\ (SaveStep /\ ~err') =>
            \E r \in chatgpt_threads_rel' \ chatgpt_threads_rel :
                /\ r.thread_id = threadId
                /\ r.chatgpt_message_id = Len(chatgpt_messages')
                /\ Len(chatgpt_messages') = Len(chatgpt_messages) + 1]_vars

\* ---------------------------------------------------------------- C39
\* C39: for a text whose first line is not empty, SplitText returns no
\* empty part, whatever maxPartLen >= 1 it is given.
C39_NoEmptyPart ==
    (split.pc = "done" /\ split.maxPartLen >= 1 /\ Split(split.t)[1] # <<>>) =>
        \A k \in 1..Len(split.parts) : split.parts[k] # <<>>

\* ---------------------------------------------------------------- C40
\* C40: every status the bot posts while it handles a notification has the
\* visibility of the post that triggered it; a reply to a direct post is
\* direct.
C40_ReplyKeepsVisibility ==
    [][PostChunkStep =>
        /\ statuses'[Len(statuses')].account = MyAccountID
        /\ statuses'[Len(statuses')].visibility = statuses[Status].visibility]_vars

\* Both chunks of the reply to a direct post are on the network, direct.
C40_Witness ==
    /\ pc = "advance"
    /\ statuses[Status].visibility = "direct"
    /\ i = 2
    /\ \E s \in 1..Len(statuses) : \E t \in 1..Len(statuses) :
        /\ s # t
        /\ statuses[s].account = MyAccountID /\ statuses[s].visibility = "direct"
        /\ statuses[t].account = MyAccountID /\ statuses[t].visibility = "direct"

====
